---- MODULE Spec2Model ----
(***************************************************************************)
(* Model of the JSON path-statistics profiler of software-mentions:        *)
(* pkg/jsonl (the Field accumulators NullField, BoolField, NumberField,    *)
(* StringField) and the json-stats command that walks every entry of a     *)
(* .jsonl file with addKVs and prints one row per path.                    *)
(***************************************************************************)
EXTENDS Integers, Sequences, FiniteSets, TLC

(***************************************************************************)
(* float64.  A float64 is modelled by its IEEE-754 bit pattern, split in   *)
(* the sign bit, the 11-bit biased exponent and the 52-bit fraction; the   *)
(* fraction is held as its high 23 bits (the part a float32 keeps) and its *)
(* low 29 bits, so that every field fits a machine integer.  Only finite,  *)
(* normal values and +0 occur (JSON has no NaN, no infinity).              *)
(***************************************************************************)
Float64FractionLength == 52

Float32FractionLength == 23

Float64Mask == (2 ^ (Float64FractionLength - Float32FractionLength)) - 1

ExpBias == 1023

RECURSIVE Log2(_)
Log2(n) == IF n < 2 THEN 0 ELSE 1 + Log2(n \div 2)

Abs(n) == IF n < 0 THEN -n ELSE n

\* The float64 a JSON integer literal n decodes to (|n| < 2^31, so exact).
Float(n) ==
  IF n = 0 THEN [sign |-> 0, exp |-> 0, fracHi |-> 0, fracLo |-> 0]
  ELSE LET m == Abs(n)
           e == Log2(m)
           r == m - 2 ^ e
       IN [sign   |-> IF n < 0 THEN 1 ELSE 0,
           exp    |-> e + ExpBias,
           fracHi |-> IF e <= Float32FractionLength
                      THEN r * 2 ^ (Float32FractionLength - e)
                      ELSE r \div 2 ^ (e - Float32FractionLength),
           fracLo |-> IF e <= Float32FractionLength
                      THEN 0
                      ELSE (r % 2 ^ (e - Float32FractionLength))
                             * 2 ^ (Float64FractionLength - e)]

\* 0.5 = 0x3FE0000000000000
Half == [sign |-> 0, exp |-> 1022, fracHi |-> 0, fracLo |-> 0]

\* 0.1 = 0x3FB999999999999A
Tenth == [sign |-> 0, exp |-> 1019, fracHi |-> 5033164, fracLo |-> 429496730]

\* 8589934592 = 2^33 = 0x4200000000000000
Pow33 == [sign |-> 0, exp |-> 1056, fracHi |-> 0, fracLo |-> 0]

IsZero(a) == a.exp = 0 /\ a.fracHi = 0 /\ a.fracLo = 0

MagLess(a, b) ==
  \/ a.exp < b.exp
  \/ a.exp = b.exp /\ a.fracHi < b.fracHi
  \/ a.exp = b.exp /\ a.fracHi = b.fracHi /\ a.fracLo < b.fracLo

\* Go's a < b on float64
Less(a, b) ==
  IF a.sign = 1 /\ b.sign = 0 THEN ~(IsZero(a) /\ IsZero(b))
  ELSE IF a.sign = 0 /\ b.sign = 1 THEN FALSE
  ELSE IF a.sign = 0 THEN MagLess(a, b)
  ELSE MagLess(b, a)

\* Go's a <= b on float64
LessEq(a, b) == ~Less(b, a)

\* math.MaxInt8 ... math.MaxUint32 as the float64 they convert to
MaxInt8 == 127

MaxInt16 == 32767

MaxInt32 == 2147483647

MaxUint8 == 255

MaxUint16 == 65535

\* 4294967295 = 2^32 - 1 = 0x41EFFFFFFFE00000
MaxUint32 == [sign |-> 0, exp |-> 1054, fracHi |-> 8388607, fracLo |-> 534773760]

\* math.Round(f) == f: f has no bits below the binary point
isIntegral(f) ==
  LET e == f.exp - ExpBias
      n == Float64FractionLength - e
      lowLen == Float64FractionLength - Float32FractionLength
  IN IF IsZero(f) THEN TRUE
     ELSE IF e < 0 THEN FALSE
     ELSE IF n <= 0 THEN TRUE
     ELSE IF n <= lowLen THEN f.fracLo % (2 ^ n) = 0
     ELSE f.fracLo = 0 /\ f.fracHi % (2 ^ (n - lowLen)) = 0

\* isFloat32 that also wants the exponent to be one of a float32
isFloat32Ranged(f) ==
  /\ (f.fracLo % (Float64Mask + 1)) = 0
  /\ IsZero(f) \/ (f.exp - ExpBias) \in -126..127

\* math.Float64bits(f) & Float64Mask == 0
isFloat32(f) == (f.fracLo % (Float64Mask + 1)) = 0

(***************************************************************************)
(* Decoded JSON values (encoding/json into any): nil, bool, float64,       *)
(* string, []any and map[string]any.  An object holds its members in the   *)
(* order the range loop over the Go map visits them.                       *)
(***************************************************************************)
JNull == [kind |-> "null"]

JBool(b) == [kind |-> "bool", b |-> b]

JNum(f) == [kind |-> "number", n |-> f]

JStr(s) == [kind |-> "string", s |-> s]

JArr(elems) == [kind |-> "array", elems |-> elems]

JObj(members) == [kind |-> "object", members |-> members]

\* fmt's %T of a decoded value
TypeName(obj) ==
  CASE obj.kind = "null"   -> "<nil>"
    [] obj.kind = "bool"   -> "bool"
    [] obj.kind = "number" -> "float64"
    [] obj.kind = "string" -> "string"
    [] obj.kind = "array"  -> "[]interface {}"
    [] obj.kind = "object" -> "map[string]interface {}"

(***************************************************************************)
(* pkg/jsonl: the Field accumulators.                                      *)
(***************************************************************************)
MaxEnum == 20

\* a nil Field / a nil error
Nil == [type |-> "nil"]

NilErr == [format |-> "", args |-> <<>>]

\* fmt.Errorf("unknown type %T added to %T", o, f)
Errorf(o, f) ==
  [format |-> "unknown type %T added to %T", args |-> <<TypeName(o), f.type>>]

\* m[k]++ on a Go map
MapInc(m, k) ==
  IF k \in DOMAIN m THEN [m EXCEPT ![k] = @ + 1] ELSE m @@ (k :> 1)

EmptyMap == <<>>

NullField == [type |-> "*jsonl.NullField"]

NewBoolField == [type |-> "*jsonl.BoolField", True |-> 0, False |-> 0]

NewNumberField ==
  [type |-> "*jsonl.NumberField", Integral |-> FALSE, Float32 |-> FALSE,
   Min |-> Float(0), Max |-> Float(0), Seen |-> EmptyMap]

NewStringField == [type |-> "*jsonl.StringField", Seen |-> EmptyMap]

\* BoolField.Add with the two counters taken for each other
BoolFieldAddSwapped(f, obj) ==
  IF obj.kind = "bool"
  THEN [f |-> IF obj.b THEN [f EXCEPT !.False = @ + 1]
                       ELSE [f EXCEPT !.True = @ + 1],
        err |-> NilErr]
  ELSE [f |-> Nil, err |-> Errorf(obj, f)]

BoolFieldAdd(f, obj) ==
  IF obj.kind = "bool"
  THEN [f |-> IF obj.b THEN [f EXCEPT !.True = @ + 1]
                       ELSE [f EXCEPT !.False = @ + 1],
        err |-> NilErr]
  ELSE [f |-> Nil, err |-> Errorf(obj, f)]

\* NumberField.Add with the bound of Max tested against Min: a slip in line 174
NumberFieldAddFloatMaxSlip(f, o) ==
  LET g == IF Cardinality(DOMAIN f.Seen) > 0
           THEN [f EXCEPT !.Integral = f.Integral /\ isIntegral(o),
                          !.Float32 = f.Float32 /\ isFloat32(o),
                          !.Min = IF Less(o, f.Min) THEN o ELSE @,
                          !.Max = IF ~Less(o, f.Min) /\ Less(f.Min, o)
                                  THEN o ELSE @]
           ELSE [f EXCEPT !.Integral = isIntegral(o),
                          !.Float32 = isFloat32(o),
                          !.Min = o,
                          !.Max = o]
  IN IF Cardinality(DOMAIN f.Seen) <= MaxEnum
     THEN [g EXCEPT !.Seen = MapInc(f.Seen, o)]
     ELSE g

\* NumberField.Add with the flags recomputed from the last value alone
NumberFieldAddFloatFlagReset(f, o) ==
  LET g == IF Cardinality(DOMAIN f.Seen) > 0
           THEN [f EXCEPT !.Integral = isIntegral(o),
                          !.Float32 = isFloat32(o),
                          !.Min = IF Less(o, f.Min) THEN o ELSE @,
                          !.Max = IF ~Less(o, f.Min) /\ Less(f.Max, o)
                                  THEN o ELSE @]
           ELSE [f EXCEPT !.Integral = isIntegral(o),
                          !.Float32 = isFloat32(o),
                          !.Min = o,
                          !.Max = o]
  IN IF Cardinality(DOMAIN f.Seen) <= MaxEnum
     THEN [g EXCEPT !.Seen = MapInc(f.Seen, o)]
     ELSE g

\* NumberField.Add that keeps only the extreme it saw last: Min is reset when
\* Max moves
NumberFieldAddFloatMinReset(f, o) ==
  LET g == IF Cardinality(DOMAIN f.Seen) > 0
           THEN [f EXCEPT !.Integral = f.Integral /\ isIntegral(o),
                          !.Float32 = f.Float32 /\ isFloat32(o),
                          !.Min = IF Less(o, f.Min) \/ Less(f.Max, o) THEN o ELSE @,
                          !.Max = IF ~Less(o, f.Min) /\ Less(f.Max, o)
                                  THEN o ELSE @]
           ELSE [f EXCEPT !.Integral = isIntegral(o),
                          !.Float32 = isFloat32(o),
                          !.Min = o,
                          !.Max = o]
  IN IF Cardinality(DOMAIN f.Seen) <= MaxEnum
     THEN [g EXCEPT !.Seen = MapInc(f.Seen, o)]
     ELSE g

\* the float64 case of NumberField.Add
NumberFieldAddFloat(f, o) ==
  LET g == IF Cardinality(DOMAIN f.Seen) > 0
           THEN [f EXCEPT !.Integral = f.Integral /\ isIntegral(o),
                          !.Float32 = f.Float32 /\ isFloat32(o),
                          !.Min = IF Less(o, f.Min) THEN o ELSE @,
                          !.Max = IF ~Less(o, f.Min) /\ Less(f.Max, o)
                                  THEN o ELSE @]
           ELSE [f EXCEPT !.Integral = isIntegral(o),
                          !.Float32 = isFloat32(o),
                          !.Min = o,
                          !.Max = o]
  IN IF Cardinality(DOMAIN f.Seen) <= MaxEnum
     THEN [g EXCEPT !.Seen = MapInc(f.Seen, o)]
     ELSE g

\* NumberField.Add that coerces a string into a fresh StringField
NumberFieldAddCoerce(f, obj) ==
  IF obj.kind = "number"
  THEN [f |-> NumberFieldAddFloat(f, obj.n), err |-> NilErr]
  ELSE IF obj.kind = "string"
  THEN [f |-> [type |-> "*jsonl.StringField", Seen |-> MapInc(EmptyMap, obj.s)],
        err |-> NilErr]
  ELSE [f |-> Nil, err |-> Errorf(obj, f)]

NumberFieldAdd(f, obj) ==
  IF obj.kind = "number"
  THEN [f |-> NumberFieldAddFloat(f, obj.n), err |-> NilErr]
  ELSE [f |-> Nil, err |-> Errorf(obj, f)]

\* StringField.Add that keeps counting the values already in the table
StringFieldAddStringCounting(f, o) ==
  IF Cardinality(DOMAIN f.Seen) <= MaxEnum \/ o \in DOMAIN f.Seen
  THEN [f EXCEPT !.Seen = MapInc(f.Seen, o)]
  ELSE f

\* StringField.Add with the size check one too late
StringFieldAddStringLate(f, o) ==
  IF Cardinality(DOMAIN f.Seen) <= MaxEnum + 1
  THEN [f EXCEPT !.Seen = MapInc(f.Seen, o)]
  ELSE f

\* the string case of StringField.Add
StringFieldAddString(f, o) ==
  IF Cardinality(DOMAIN f.Seen) <= MaxEnum
  THEN [f EXCEPT !.Seen = MapInc(f.Seen, o)]
  ELSE f

StringFieldAdd(f, obj) ==
  IF obj.kind = "string"
  THEN [f |-> StringFieldAddString(f, obj.s), err |-> NilErr]
  ELSE [f |-> Nil, err |-> Errorf(obj, f)]

\* NullField.Add that returns the new accumulator without adding the value
NullFieldAddNoDelegate(nf, obj) ==
  CASE obj.kind = "bool"   -> [f |-> NewBoolField, err |-> NilErr]
    [] obj.kind = "number" -> [f |-> NewNumberField, err |-> NilErr]
    [] obj.kind = "string" -> [f |-> NewStringField, err |-> NilErr]
    [] OTHER               -> [f |-> Nil, err |-> Errorf(obj, nf)]

NullFieldAdd(nf, obj) ==
  CASE obj.kind = "bool"   -> BoolFieldAdd(NewBoolField, obj)
    [] obj.kind = "number" -> NumberFieldAdd(NewNumberField, obj)
    [] obj.kind = "string" -> StringFieldAdd(NewStringField, obj)
    [] OTHER               -> [f |-> Nil, err |-> Errorf(obj, nf)]

\* Field.Add: the dynamic dispatch on the accumulator's type
FieldAdd(f, obj) ==
  CASE f.type = "*jsonl.NullField"   -> NullFieldAdd(f, obj)
    [] f.type = "*jsonl.BoolField"   -> BoolFieldAdd(f, obj)
    [] f.type = "*jsonl.NumberField" -> NumberFieldAdd(f, obj)
    [] f.type = "*jsonl.StringField" -> StringFieldAdd(f, obj)

\* The width class NumberField.String writes first
WidthClass(f) ==
  IF f.Integral
  THEN IF Less(f.Min, Float(0))
       THEN IF LessEq(f.Max, Float(MaxInt8)) THEN "int8"
            ELSE IF LessEq(f.Max, Float(MaxInt16)) THEN "int16"
            ELSE IF LessEq(f.Max, Float(MaxInt32)) THEN "int32"
            ELSE "int64"
       ELSE IF LessEq(f.Max, Float(MaxUint8)) THEN "uint8"
            ELSE IF LessEq(f.Max, Float(MaxUint16)) THEN "uint16"
            ELSE IF LessEq(f.Max, MaxUint32) THEN "uint32"
            ELSE "uint64"
  ELSE IF f.Float32 THEN "float32" ELSE "float64"

(***************************************************************************)
(* fmt: the verbs %d and %f.  A decimal number too large for a machine     *)
(* integer is held as the sequence of its digits, most significant first.  *)
(***************************************************************************)
DigitChars == "0123456789"

DigitChar(d) == SubSeq(DigitChars, d + 1, d + 1)

\* %d of a non-negative int
RECURSIVE FormatInt(_)
FormatInt(n) ==
  IF n < 10 THEN DigitChar(n) ELSE FormatInt(n \div 10) \o DigitChar(n % 10)

RECURSIVE DecString(_)
DecString(ds) ==
  IF ds = <<>> THEN "" ELSE DigitChar(Head(ds)) \o DecString(Tail(ds))

RECURSIVE DigitsOf(_)
DigitsOf(n) == IF n < 10 THEN <<n>> ELSE Append(DigitsOf(n \div 10), n % 10)

\* k * ds + c for k <= 2^ChunkBits and c < 2^30, the digits of ds taken from
\* the last to the first
ChunkBits == 14

RECURSIVE DecMulAddFrom(_, _, _, _)
DecMulAddFrom(ds, i, k, c) ==
  IF i = 0 THEN (IF c = 0 THEN <<>> ELSE DigitsOf(c))
  ELSE LET t == k * ds[i] + c
       IN Append(DecMulAddFrom(ds, i - 1, k, t \div 10), t % 10)

DecMulAdd(ds, k, c) ==
  LET r == DecMulAddFrom(ds, Len(ds), k, c) IN IF r = <<>> THEN <<0>> ELSE r

\* ds \div k and ds % k for k <= 2^ChunkBits, the digits of ds taken from the
\* first to the last
RECURSIVE DecDivModFrom(_, _, _, _, _)
DecDivModFrom(ds, i, k, r, q) ==
  IF i > Len(ds) THEN [q |-> q, r |-> r]
  ELSE LET t == 10 * r + ds[i]
           q1 == IF q = <<>> /\ t < k /\ i < Len(ds) THEN q ELSE Append(q, t \div k)
       IN DecDivModFrom(ds, i + 1, k, t % k, q1)

DecDivMod(ds, k) == DecDivModFrom(ds, 1, k, 0, <<>>)

RECURSIVE DecInc(_)
DecInc(ds) ==
  IF ds = <<>> THEN <<1>>
  ELSE IF ds[Len(ds)] < 9 THEN [ds EXCEPT ![Len(ds)] = @ + 1]
  ELSE Append(DecInc(SubSeq(ds, 1, Len(ds) - 1)), 0)

\* ds * 2^n
RECURSIVE DecShiftLeft(_, _)
DecShiftLeft(ds, n) ==
  IF n = 0 THEN ds
  ELSE LET c == IF n > ChunkBits THEN ChunkBits ELSE n
           d == DecMulAdd(ds, 2 ^ c, 0)
       IN IF d = <<>> THEN d ELSE DecShiftLeft(d, n - c)

\* ds / 2^n (n > 0) rounded to the nearest, to the even one of two nearest;
\* sticky tells that a one was shifted out below the bits still to shift
RECURSIVE DecShiftRound(_, _, _)
DecShiftRound(ds, n, sticky) ==
  LET c == IF n > ChunkBits THEN ChunkBits ELSE n
      h == DecDivMod(ds, 2 ^ c)
  IN IF n > c
     THEN (IF h.q = <<>> \/ sticky \/ h.r # 0 THEN DecShiftRound(h.q, n - c, TRUE)
           ELSE DecShiftRound(h.q, n - c, FALSE))
     ELSE LET guard == h.r >= 2 ^ (c - 1)
              rest == sticky \/ (h.r % 2 ^ (c - 1)) # 0
          IN IF guard /\ (rest \/ h.q[Len(h.q)] % 2 = 1) THEN DecInc(h.q) ELSE h.q

\* the digits of the 53-bit mantissa of f: 2^52 + fraction
MantissaDigits(f) ==
  LET hi == DigitsOf(2 ^ Float32FractionLength + f.fracHi)
      lowLen == Float64FractionLength - Float32FractionLength
      mid == DecMulAdd(hi, 2 ^ ChunkBits, 0)
  IN DecMulAdd(mid, 2 ^ (lowLen - ChunkBits), f.fracLo)

\* the digits of |int(f)|: f truncated toward zero (|f| < 2^63)
IntDigits(f) ==
  LET e == f.exp - ExpBias
  IN IF IsZero(f) \/ e < 0 THEN <<0>>
     ELSE IF e <= Float32FractionLength
     THEN DigitsOf((2 ^ Float32FractionLength + f.fracHi)
                     \div 2 ^ (Float32FractionLength - e))
     ELSE IF e <= Float64FractionLength
     THEN LET n == e - Float32FractionLength
              hi == DigitsOf(2 ^ Float32FractionLength + f.fracHi)
              lo == f.fracLo \div 2 ^ (Float64FractionLength - e)
          IN IF n <= ChunkBits THEN DecMulAdd(hi, 2 ^ n, lo)
             ELSE IF n <= 2 * ChunkBits
             THEN DecMulAdd(DecMulAdd(hi, 2 ^ ChunkBits, 0), 2 ^ (n - ChunkBits), lo)
             ELSE DecMulAdd(DecMulAdd(DecMulAdd(hi, 2 ^ ChunkBits, 0), 2 ^ ChunkBits, 0),
                            2 ^ (n - 2 * ChunkBits), lo)
     ELSE DecShiftLeft(MantissaDigits(f), e - Float64FractionLength)

\* fmt.Sprintf("%d", int(f))
FormatD(f) ==
  (IF f.sign = 1 /\ IntDigits(f) # <<0>> THEN "-" ELSE "") \o DecString(IntDigits(f))

\* fmt.Sprintf("%f", f): six digits after the point, correctly rounded
FormatF(f) ==
  LET scaled == MantissaDigits(f) \o <<0, 0, 0, 0, 0, 0>>
      s == f.exp - ExpBias - Float64FractionLength
      n == IF IsZero(f) THEN <<0>>
           ELSE IF s >= 0 THEN DecShiftLeft(scaled, s)
           ELSE DecShiftRound(scaled, -s, FALSE)
      padded == IF Len(n) < 7 THEN [i \in 1..(7 - Len(n)) |-> 0] \o n ELSE n
  IN (IF f.sign = 1 THEN "-" ELSE "")
       \o DecString(SubSeq(padded, 1, Len(padded) - 6)) \o "."
       \o DecString(SubSeq(padded, Len(padded) - 5, Len(padded)))

(***************************************************************************)
(* pkg/jsonl: the String methods.  keys is the order in which the range    *)
(* loop over f.Seen visits the keys of the map: any enumeration of them.   *)
(***************************************************************************)
NullFieldString == "null"

\* the largest map of which every range order is tried
MaxPerm == 3

RECURSIVE Perms(_)
Perms(S) ==
  IF S = {} THEN {<<>>}
  ELSE UNION {{<<x>> \o t : t \in Perms(S \ {x})} : x \in S}

Range(q) == {q[i] : i \in 1..Len(q)}

\* up to 1, 2, 4, 8, 16 elements of S, one after the other
Pick1(S) == IF S = {} THEN <<>> ELSE <<CHOOSE y \in S : TRUE>>

Pick2(S) == LET a == Pick1(S) IN a \o Pick1(S \ Range(a))

Pick4(S) == LET a == Pick2(S) IN a \o Pick2(S \ Range(a))

Pick8(S) == LET a == Pick4(S) IN a \o Pick4(S \ Range(a))

Pick16(S) == LET a == Pick8(S) IN a \o Pick8(S \ Range(a))

\* the elements of S one after the other
RECURSIVE SetToSeq(_)
SetToSeq(S) ==
  IF S = {} THEN <<>>
  ELSE LET a == Pick16(S) IN a \o SetToSeq(S \ Range(a))

Reverse(q) == [i \in 1..Len(q) |-> q[Len(q) + 1 - i]]

\* orders in which a range loop can visit a map with the keys S: every order
\* for a map of at most MaxPerm keys, two opposite ones for a larger map
RangeOrders(S) ==
  IF Cardinality(S) <= MaxPerm THEN Perms(S)
  ELSE {SetToSeq(S), Reverse(SetToSeq(S))}

BoolFieldString(f) ==
  "true:" \o FormatInt(f.True) \o ";false:" \o FormatInt(f.False)

RECURSIVE NumberFieldPairs(_, _)
NumberFieldPairs(f, keys) ==
  IF keys = <<>> THEN ""
  ELSE (IF f.Integral THEN FormatD(Head(keys)) ELSE FormatF(Head(keys)))
         \o ":" \o FormatInt(f.Seen[Head(keys)]) \o ";"
         \o NumberFieldPairs(f, Tail(keys))

NumberFieldString(f, keys) ==
  WidthClass(f) \o ";"
    \o (IF f.Integral THEN FormatD(f.Min) \o ";" \o FormatD(f.Max)
        ELSE FormatF(f.Min) \o ";" \o FormatF(f.Max))
    \o (IF Cardinality(DOMAIN f.Seen) <= MaxEnum
        THEN NumberFieldPairs(f, keys) ELSE "")

RECURSIVE StringFieldPairs(_, _)
StringFieldPairs(f, keys) ==
  IF keys = <<>> THEN ""
  ELSE Head(keys) \o ":" \o FormatInt(f.Seen[Head(keys)]) \o ";"
         \o StringFieldPairs(f, Tail(keys))

\* StringField.String that lists the pairs of a table of any size
StringFieldStringNoCap(f, keys) ==
  "enum;" \o FormatInt(Cardinality(DOMAIN f.Seen)) \o ";"
    \o StringFieldPairs(f, keys)

\* StringField.String that takes a table of MaxEnum values for a full one
StringFieldStringStrict(f, keys) ==
  IF Cardinality(DOMAIN f.Seen) < MaxEnum
  THEN "enum;" \o FormatInt(Cardinality(DOMAIN f.Seen)) \o ";"
         \o StringFieldPairs(f, keys)
  ELSE "string;"

StringFieldString(f, keys) ==
  IF Cardinality(DOMAIN f.Seen) <= MaxEnum
  THEN "enum;" \o FormatInt(Cardinality(DOMAIN f.Seen)) \o ";"
         \o StringFieldPairs(f, keys)
  ELSE "string;"

\* Field.String
FieldString(f, keys) ==
  CASE f.type = "*jsonl.NullField"   -> NullFieldString
    [] f.type = "*jsonl.BoolField"   -> BoolFieldString(f)
    [] f.type = "*jsonl.NumberField" -> NumberFieldString(f, keys)
    [] f.type = "*jsonl.StringField" -> StringFieldString(f, keys)

(***************************************************************************)
(* json-stats: addKVs walks one decoded entry and updates keyValueSets.    *)
(* The result is the map as the call leaves it and the error it returns.   *)
(***************************************************************************)
RECURSIVE addKVs(_, _, _)
RECURSIVE addKVsEach(_, _, _)
\* addKVs that names the element of an array by its index
addKVsIndexed(path, obj, kvs) ==
  CASE obj.kind = "array" ->
         addKVsEach([i \in 1..Len(obj.elems) |-> path \o "[" \o ToString(i - 1) \o "]"],
                    obj.elems, kvs)
    [] obj.kind = "object" ->
         addKVsEach([i \in 1..Len(obj.members) |-> path \o "." \o obj.members[i][1]],
                    [i \in 1..Len(obj.members) |-> obj.members[i][2]], kvs)
    [] OTHER ->
         LET pathCounts == IF path \in DOMAIN kvs THEN kvs[path] ELSE NullField
             r == FieldAdd(pathCounts, obj)
         IN IF r.err # NilErr
            THEN [kvs |-> kvs, err |-> r.err]
            ELSE [kvs |-> IF path \in DOMAIN kvs
                          THEN [kvs EXCEPT ![path] = r.f]
                          ELSE kvs @@ (path :> r.f),
                  err |-> NilErr]

addKVs(path, obj, kvs) ==
  CASE obj.kind = "array" ->
         addKVsEach([i \in 1..Len(obj.elems) |-> path \o "[]"], obj.elems, kvs)
    [] obj.kind = "object" ->
         addKVsEach([i \in 1..Len(obj.members) |-> path \o "." \o obj.members[i][1]],
                    [i \in 1..Len(obj.members) |-> obj.members[i][2]], kvs)
    [] OTHER ->
         LET pathCounts == IF path \in DOMAIN kvs THEN kvs[path] ELSE NullField
             r == FieldAdd(pathCounts, obj)
         IN IF r.err # NilErr
            THEN [kvs |-> kvs, err |-> r.err]
            ELSE [kvs |-> IF path \in DOMAIN kvs
                          THEN [kvs EXCEPT ![path] = r.f]
                          ELSE kvs @@ (path :> r.f),
                  err |-> NilErr]

\* the range loops of addKVs: the values vs at the paths ps, in order, stopping
\* at the first error
addKVsEach(ps, vs, kvs) ==
  IF vs = <<>> THEN [kvs |-> kvs, err |-> NilErr]
  ELSE LET r == addKVs(Head(ps), Head(vs), kvs)
       IN IF r.err # NilErr THEN r
          ELSE addKVsEach(Tail(ps), Tail(vs), r.kvs)

(***************************************************************************)
(* sort.Strings: byte-wise order on the paths.                             *)
(***************************************************************************)
\* the printable ASCII characters 0x20..0x5F and 0x61..0x7E, in byte order
AsciiLow == " !\"#$%&'()*+,-./0123456789:;<=>?@ABCDEFGHIJKLMNOPQRSTUVWXYZ[\\]^_"

AsciiHigh == "abcdefghijklmnopqrstuvwxyz{|}~"

IndexOf(c, s) == CHOOSE i \in 1..Len(s) : SubSeq(s, i, i) = c

\* the byte of every character
ByteOf ==
  [c \in {SubSeq(AsciiLow, i, i) : i \in 1..Len(AsciiLow)}
           \cup {SubSeq(AsciiHigh, i, i) : i \in 1..Len(AsciiHigh)} |->
     IF \E i \in 1..Len(AsciiLow) : SubSeq(AsciiLow, i, i) = c
     THEN 31 + IndexOf(c, AsciiLow)
     ELSE 96 + IndexOf(c, AsciiHigh)]

Byte(c) == ByteOf[c]

RECURSIVE StringLess(_, _)
StringLess(a, b) ==
  IF b = "" THEN FALSE
  ELSE IF a = "" THEN TRUE
  ELSE IF Head(a) = Head(b) THEN StringLess(Tail(a), Tail(b))
  ELSE Byte(Head(a)) < Byte(Head(b))

RECURSIVE SortStrings(_)
SortStrings(S) ==
  IF S = {} THEN <<>>
  ELSE LET first == CHOOSE p \in S : \A q \in S \ {p} : StringLess(p, q)
       IN <<first>> \o SortStrings(S \ {first})

(***************************************************************************)
(* The entries the reader can deliver.                                     *)
(***************************************************************************)
\* the number of entries one run reads
MaxDocs == 3

Entry1(k, v) == JObj(<< <<k, v>> >>)

Entry2(k1, v1, k2, v2) == JObj(<< <<k1, v1>>, <<k2, v2>> >>)

\* MaxEnum+1 distinct strings "s1", "s2", ... and as many distinct numbers
ManyStrings == [i \in 1..(MaxEnum + 1) |-> JStr("s" \o ToString(i))]

ManyNumbers == [i \in 1..(MaxEnum + 1) |-> JNum(Float(i))]

NumVals ==
  {Float(-200), Float(-1), Float(100), Float(70000), Pow33, Half, Tenth}

Docs ==
  {Entry1("a", JNum(v)) : v \in NumVals}
  \cup {Entry1("a", JStr("x")), Entry1("a", JBool(TRUE)), Entry1("a", JNull)}
  \cup {Entry2("a", JNum(Float(1)), "b", JStr("x")),
        Entry2("b", JStr("x"), "a", JNum(Float(1))),
        Entry2("a", JNum(Float(2)), "b", JStr("y")),
        Entry2("a", JNum(Float(300)), "b", JStr("x"))}
  \cup {Entry1("tags", JArr(<<JStr("x"), JStr("y")>>)),
        Entry1("tags", JArr(ManyStrings)),
        Entry1("tags", JArr(SubSeq(ManyStrings, 1, MaxEnum))),
        Entry1("tags", JArr(<<JStr("s1")>>)),
        Entry1("tags", JArr(<<JStr("s" \o ToString(MaxEnum + 2))>>)),
        Entry1("n", JArr(ManyNumbers)),
        Entry1("n", JArr(<<JNum(Float(1))>>)),
        Entry1("n", JArr(<<JNum(Float(MaxEnum + 2))>>))}
  \cup {Entry1("f", JBool(TRUE)), Entry1("f", JBool(FALSE))}

(***************************************************************************)
(* History of the run: the leaves whose Add succeeded, per path.           *)
(***************************************************************************)
RECURSIVE Leaves(_, _)
RECURSIVE LeavesEach(_, _)
\* the (path, leaf) pairs of a value in the order addKVs reaches them
Leaves(path, obj) ==
  CASE obj.kind = "array" ->
         LeavesEach([i \in 1..Len(obj.elems) |-> path \o "[]"], obj.elems)
    [] obj.kind = "object" ->
         LeavesEach([i \in 1..Len(obj.members) |-> path \o "." \o obj.members[i][1]],
                    [i \in 1..Len(obj.members) |-> obj.members[i][2]])
    [] OTHER -> << <<path, obj>> >>

LeavesEach(ps, vs) ==
  IF vs = <<>> THEN <<>>
  ELSE Leaves(Head(ps), Head(vs)) \o LeavesEach(Tail(ps), Tail(vs))

\* the leaves of ls added before the first Add that fails
RECURSIVE Added(_, _)
Added(ls, kvs) ==
  IF ls = <<>> THEN <<>>
  ELSE LET r == addKVs(Head(ls)[1], Head(ls)[2], kvs)
       IN IF r.err # NilErr THEN <<>>
          ELSE <<Head(ls)>> \o Added(Tail(ls), r.kvs)

\* h with the leaves ls counted, the first half of them and then the rest
RECURSIVE Record(_, _)
Record(h, ls) ==
  IF ls = <<>> THEN h
  ELSE IF Len(ls) = 1
  THEN LET p == Head(ls)[1]
           v == Head(ls)[2]
           bag == IF p \in DOMAIN h THEN h[p] ELSE EmptyMap
       IN IF p \in DOMAIN h THEN [h EXCEPT ![p] = MapInc(bag, v)]
          ELSE h @@ (p :> MapInc(bag, v))
  ELSE LET h1 == Record(h, SubSeq(ls, 1, Len(ls) \div 2))
       IN IF h1 = <<>> THEN h1
          ELSE Record(h1, SubSeq(ls, Len(ls) \div 2 + 1, Len(ls)))

(***************************************************************************)
(* runE of json-stats.                                                     *)
(***************************************************************************)
\* mode tells which of the two json-stats programs runs: the one that keeps a
\* jsonl.Field per path ("accumulator") or the one that keeps a map of value
\* counts per path ("raw")
VARIABLES keyValueSets, pc, err, out, nread, hist, mode

\* the argument a function of the packages is called with and what it returns
VARIABLES arg, result

\* jsonl.Sort: keys and valMap, and the entries its input has yielded
VARIABLES keys, valMap, entries

\* paper-id-convert and license-count: the bytes the bufio.Writer holds, the
\* bytes of the .pbl file, the encodings of the records written, the offset
\* of the reader in the file, licenseMap, the encodings of the records read
VARIABLES writer, stream, written, offset, licenseMap, recovered

\* mentions-convert: the goroutines' positions, the files the walk has yet to
\* visit, the channel, the map of counts, the wait group's counter, the
\* writer's loop variable, the output file, and two histories: the messages
\* sent and the accesses to the shared map
VARIABLES goroutine, walk, mentions, counts, writeWg, mention, outFile, sent,
          accesses

\* mentions-count: the channel of per-file maps, the merged map, the merge
\* goroutine's loop variable, the history of the maps processFile returned,
\* the entries of the directory yet to be processed, the wait group's counter
VARIABLES maps, softwareMap, entrySoftwareMap, processed, dirEntries, mergeWg

\* the variables of json-stats
jsonStats == <<keyValueSets, pc, err, out, nread, hist>>

fnVars == <<arg, result>>

sortVars == <<keys, valMap, entries>>

pblVars == <<writer, stream, written, offset, licenseMap, recovered>>

convVars == <<walk, mentions, counts, writeWg, mention, outFile, sent>>

countVars == <<maps, softwareMap, entrySoftwareMap, processed, dirEntries, mergeWg>>

\* the variables of the two programs that run goroutines
goVars == <<goroutine, accesses, convVars, countVars>>

\* the variables json-stats has no part in
others == <<fnVars, sortVars, pblVars, goVars>>

\* the variables a call of a function has no part in, and those of Sort
besideFn == <<jsonStats, mode, sortVars, pblVars, goVars>>

besideSort == <<keyValueSets, hist, mode, fnVars, pblVars, goVars>>

vars == <<jsonStats, mode, fnVars, sortVars, pblVars, goVars>>

\* no function is called
FnIdle ==
  /\ arg = Nil
  /\ result = Nil

\* jsonl.Sort does not run
SortIdle ==
  /\ keys = <<>>
  /\ valMap = EmptyMap
  /\ entries = <<>>

\* neither paper-id-convert nor license-count runs
PblIdle ==
  /\ writer = <<>>
  /\ stream = <<>>
  /\ written = <<>>
  /\ offset = 0
  /\ licenseMap = <<>>
  /\ recovered = <<>>

\* no goroutine runs
GoIdle ==
  /\ goroutine = Nil
  /\ accesses = {}
  /\ walk = <<>>
  /\ mentions = Nil
  /\ counts = <<>>
  /\ writeWg = 0
  /\ mention = Nil
  /\ outFile = <<>>
  /\ sent = <<>>
  /\ maps = Nil
  /\ softwareMap = <<>>
  /\ entrySoftwareMap = Nil
  /\ processed = <<>>
  /\ dirEntries = <<>>
  /\ mergeWg = 0

\* nothing but json-stats runs
RestIdle ==
  /\ FnIdle
  /\ SortIdle
  /\ PblIdle
  /\ GoIdle

Start ==
  /\ keyValueSets = EmptyMap
  /\ pc = "reading"
  /\ err = NilErr
  /\ out = <<>>
  /\ nread = 0
  /\ hist = EmptyMap
  /\ RestIdle

Init == Start /\ mode = "accumulator"

\* processJsonFile that drops the error of addKVs and reads on
ReadEntryIgnoreErr(doc) ==
  /\ mode = "accumulator"
  /\ pc = "reading"
  /\ nread < MaxDocs
  /\ LET r == addKVs("", doc, keyValueSets)
     IN /\ keyValueSets' = r.kvs
        /\ err' = NilErr
        /\ pc' = "reading"
        /\ hist' = Record(hist, Added(Leaves("", doc), keyValueSets))
  /\ nread' = nread + 1
  /\ UNCHANGED <<out, mode, others>>

\* processJsonFile: the reader yields an entry, addKVs("", *entry, keyValueSets)
ReadEntry(doc) ==
  /\ mode = "accumulator"
  /\ pc = "reading"
  /\ nread < MaxDocs
  /\ LET r == addKVs("", doc, keyValueSets)
     IN /\ keyValueSets' = r.kvs
        /\ err' = r.err
        /\ pc' = IF r.err # NilErr THEN "failed" ELSE "reading"
        /\ hist' = Record(hist, Added(Leaves("", doc), keyValueSets))
  /\ nread' = nread + 1
  /\ UNCHANGED <<out, mode, others>>

\* processJsonFile: the reader yields an error that is not io.EOF
ReadError ==
  /\ mode = "accumulator"
  /\ pc = "reading"
  /\ err' = [format |-> "decode", args |-> <<>>]
  /\ pc' = "failed"
  /\ UNCHANGED <<keyValueSets, out, nread, hist, mode, others>>

\* the reader yields io.EOF: runE sorts the paths and writes one row per path
ReadEOF ==
  /\ mode = "accumulator"
  /\ pc = "reading"
  /\ LET paths == SortStrings(DOMAIN keyValueSets)
     IN out' = [i \in 1..Len(paths) |->
                  [path |-> paths[i], field |-> keyValueSets[paths[i]]]]
  /\ pc' = "done"
  /\ UNCHANGED <<keyValueSets, err, nread, hist, mode, others>>

Next ==
  \/ \E doc \in Docs : ReadEntry(doc)
  \/ ReadError
  \/ ReadEOF

Spec == Init /\ [][Next]_vars

(***************************************************************************)
(* cmd/json-stats: the program that keeps, per path, a map from the text   *)
(* of each value to its count.                                             *)
(***************************************************************************)
\* the number of distinct values after which addKVs and runE leave a path out
PathCap == 100

\* the key a leaf is counted under
RawKey(obj) ==
  CASE obj.kind = "bool"   -> IF obj.b THEN "true" ELSE "false"
    [] obj.kind = "string" -> obj.s
    [] obj.kind = "number" -> FormatF(obj.n)

\* kvs[path] = pathCounts
Store(kvs, path, pathCounts) ==
  IF path \in DOMAIN kvs THEN [kvs EXCEPT ![path] = pathCounts]
  ELSE kvs @@ (path :> pathCounts)

RECURSIVE addKVsRaw(_, _, _)
RECURSIVE addKVsRawEach(_, _, _)
\* addKVs that tests the cap one value too late
addKVsRawLate(path, obj, kvs) ==
  IF path \in DOMAIN kvs /\ Cardinality(DOMAIN kvs[path]) > PathCap + 1
  THEN [kvs |-> kvs, err |-> NilErr]
  ELSE LET pathCounts == IF path \in DOMAIN kvs THEN kvs[path] ELSE EmptyMap
       IN CASE obj.kind = "null" ->
                 [kvs |-> Store(kvs, path, pathCounts), err |-> NilErr]
            [] obj.kind \in {"bool", "string", "number"} ->
                 [kvs |-> Store(kvs, path, MapInc(pathCounts, RawKey(obj))),
                  err |-> NilErr]
            [] obj.kind = "array" ->
                 LET r == addKVsRawEach([i \in 1..Len(obj.elems) |-> path \o "[]"],
                                        obj.elems, kvs)
                 IN IF r.err # NilErr THEN r
                    ELSE [kvs |-> Store(r.kvs, path, pathCounts), err |-> NilErr]
            [] obj.kind = "object" ->
                 LET r == addKVsRawEach(
                            [i \in 1..Len(obj.members) |->
                               path \o obj.members[i][1] \o "."],
                            [i \in 1..Len(obj.members) |-> obj.members[i][2]], kvs)
                 IN IF r.err # NilErr THEN r
                    ELSE [kvs |-> Store(r.kvs, path, pathCounts), err |-> NilErr]

\* addKVs that returns at a null before kvs[path] is stored
addKVsRawSkipNull(path, obj, kvs) ==
  IF path \in DOMAIN kvs /\ Cardinality(DOMAIN kvs[path]) > PathCap
  THEN [kvs |-> kvs, err |-> NilErr]
  ELSE LET pathCounts == IF path \in DOMAIN kvs THEN kvs[path] ELSE EmptyMap
       IN CASE obj.kind = "null" -> [kvs |-> kvs, err |-> NilErr]
            [] obj.kind \in {"bool", "string", "number"} ->
                 [kvs |-> Store(kvs, path, MapInc(pathCounts, RawKey(obj))),
                  err |-> NilErr]
            [] obj.kind = "array" ->
                 LET r == addKVsRawEach([i \in 1..Len(obj.elems) |-> path \o "[]"],
                                        obj.elems, kvs)
                 IN IF r.err # NilErr THEN r
                    ELSE [kvs |-> Store(r.kvs, path, pathCounts), err |-> NilErr]
            [] obj.kind = "object" ->
                 LET r == addKVsRawEach(
                            [i \in 1..Len(obj.members) |->
                               path \o obj.members[i][1] \o "."],
                            [i \in 1..Len(obj.members) |-> obj.members[i][2]], kvs)
                 IN IF r.err # NilErr THEN r
                    ELSE [kvs |-> Store(r.kvs, path, pathCounts), err |-> NilErr]

\* addKVs of cmd/json-stats: every value the decoder yields is of one of the
\* six kinds, so the default case, the only one with an error, is not reached
addKVsRaw(path, obj, kvs) ==
  IF path \in DOMAIN kvs /\ Cardinality(DOMAIN kvs[path]) > PathCap
  THEN [kvs |-> kvs, err |-> NilErr]
  ELSE LET pathCounts == IF path \in DOMAIN kvs THEN kvs[path] ELSE EmptyMap
       IN CASE obj.kind = "null" ->
                 [kvs |-> Store(kvs, path, pathCounts), err |-> NilErr]
            [] obj.kind \in {"bool", "string", "number"} ->
                 [kvs |-> Store(kvs, path, MapInc(pathCounts, RawKey(obj))),
                  err |-> NilErr]
            [] obj.kind = "array" ->
                 LET r == addKVsRawEach([i \in 1..Len(obj.elems) |-> path \o "[]"],
                                        obj.elems, kvs)
                 IN IF r.err # NilErr THEN r
                    ELSE [kvs |-> Store(r.kvs, path, pathCounts), err |-> NilErr]
            [] obj.kind = "object" ->
                 LET r == addKVsRawEach(
                            [i \in 1..Len(obj.members) |->
                               path \o obj.members[i][1] \o "."],
                            [i \in 1..Len(obj.members) |-> obj.members[i][2]], kvs)
                 IN IF r.err # NilErr THEN r
                    ELSE [kvs |-> Store(r.kvs, path, pathCounts), err |-> NilErr]

\* the range loops of addKVs: the values vs at the paths ps, in order, stopping
\* at the first error (the first half of the values, then the rest)
addKVsRawEach(ps, vs, kvs) ==
  IF vs = <<>> THEN [kvs |-> kvs, err |-> NilErr]
  ELSE IF Len(vs) = 1 THEN addKVsRaw(Head(ps), Head(vs), kvs)
  ELSE LET h == Len(vs) \div 2
           r == addKVsRawEach(SubSeq(ps, 1, h), SubSeq(vs, 1, h), kvs)
       IN IF r.err # NilErr THEN r
          ELSE addKVsRawEach(SubSeq(ps, h + 1, Len(ps)), SubSeq(vs, h + 1, Len(vs)),
                             r.kvs)

\* the leaves of a value with the paths of cmd/json-stats
RECURSIVE RawLeaves(_, _)
RECURSIVE RawLeavesEach(_, _)
RawLeaves(path, obj) ==
  CASE obj.kind = "array" ->
         RawLeavesEach([i \in 1..Len(obj.elems) |-> path \o "[]"], obj.elems)
    [] obj.kind = "object" ->
         RawLeavesEach([i \in 1..Len(obj.members) |-> path \o obj.members[i][1] \o "."],
                       [i \in 1..Len(obj.members) |-> obj.members[i][2]])
    [] OTHER -> << <<path, obj>> >>

RawLeavesEach(ps, vs) ==
  IF vs = <<>> THEN <<>>
  ELSE IF Len(vs) = 1 THEN RawLeaves(Head(ps), Head(vs))
  ELSE LET h == Len(vs) \div 2
       IN RawLeavesEach(SubSeq(ps, 1, h), SubSeq(vs, 1, h))
            \o RawLeavesEach(SubSeq(ps, h + 1, Len(ps)), SubSeq(vs, h + 1, Len(vs)))

\* PathCap + 1 distinct strings "s1", "s2", ...
RawManyStrings == [i \in 1..(PathCap + 1) |-> JStr("s" \o ToString(i))]

RawDocs ==
  {Entry1("a", JNum(Float(1))), Entry1("a", JNum(Tenth)), Entry1("a", JStr("x")),
   Entry1("a", JBool(TRUE)), Entry1("a", JNull), Entry1("b", JNull),
   Entry2("a", JStr("x"), "b", JStr("y")),
   Entry1("a", Entry1("b", JStr("x"))),
   Entry1("tags", JArr(<<JStr("x"), JStr("y")>>)),
   Entry1("tags", JArr(RawManyStrings)),
   Entry1("tags", JArr(SubSeq(RawManyStrings, 1, PathCap))),
   Entry1("tags", JArr(<<JStr("s1")>>)),
   Entry1("tags", JArr(<<JStr("s" \o ToString(PathCap + 2))>>)),
   Entry1("tags", JArr(<<JArr(<<JStr("x")>>)>>))}

\* PathKeyCount
PathKeyCount(path, key, count) == [path |-> path, key |-> key, count |-> count]

\* the less function with the counts compared the other way round
PkcLessAscending(a, b) ==
  IF a.path # b.path THEN StringLess(a.path, b.path) ELSE a.count < b.count

\* the less function of sort.Slice(pkcs, ...)
PkcLess(a, b) ==
  IF a.path # b.path THEN StringLess(a.path, b.path) ELSE a.count > b.count

\* the orders sort.Slice can leave the rows in: rows that are not less than
\* each other stand in any order (the order of the range over the two maps
\* and the unstable sort decide)
RECURSIVE SortSlice(_)
SortSlice(pkcs) ==
  IF pkcs = {} THEN {<<>>}
  ELSE LET least == CHOOSE a \in pkcs : \A b \in pkcs : ~PkcLess(b, a)
           first == {a \in pkcs : ~PkcLess(least, a)}
           rest == SortSlice(pkcs \ first)
       IN {o \o r : o \in RangeOrders(first), r \in rest}

\* processJsonlFile, processJsonFile: an entry is decoded,
\* addKVs(".", entry, keyValueSets)
RawReadEntry(doc) ==
  /\ mode = "raw"
  /\ pc = "reading"
  /\ nread < MaxDocs
  /\ LET r == addKVsRaw(".", doc, keyValueSets)
     IN /\ keyValueSets' = r.kvs
        /\ err' = r.err
        /\ pc' = IF r.err # NilErr THEN "failed" ELSE "reading"
  /\ hist' = Record(hist, RawLeaves(".", doc))
  /\ nread' = nread + 1
  /\ UNCHANGED <<out, mode, others>>

\* the reader or the decoder yields an error
RawReadError ==
  /\ mode = "raw"
  /\ pc = "reading"
  /\ err' = [format |-> "decode", args |-> <<>>]
  /\ pc' = "failed"
  /\ UNCHANGED <<keyValueSets, out, nread, hist, mode, others>>

\* the rows of runE without the test of the cap
PkcsNoDrop(kvs) ==
  UNION {{PathKeyCount(p, k, kvs[p][k]) : k \in DOMAIN kvs[p]} : p \in DOMAIN kvs}

\* the rows runE collects: none for a path of more than PathCap values
Pkcs(kvs) ==
  UNION {{PathKeyCount(p, k, kvs[p][k]) : k \in DOMAIN kvs[p]} :
           p \in {q \in DOMAIN kvs : Cardinality(DOMAIN kvs[q]) <= PathCap}}

\* the reader yields io.EOF (or the last file was read): runE prints the
\* sorted paths, then writes the sorted rows
RawReadEOF ==
  /\ mode = "raw"
  /\ pc = "reading"
  /\ LET paths == SortStrings(DOMAIN keyValueSets)
     IN \E rows \in SortSlice(Pkcs(keyValueSets)) :
          out' = [i \in 1..Len(paths) |-> [path |-> paths[i]]] \o rows
  /\ pc' = "done"
  /\ UNCHANGED <<keyValueSets, err, nread, hist, mode, others>>

RawInit == Start /\ mode = "raw"

RawNext ==
  \/ \E doc \in RawDocs : RawReadEntry(doc)
  \/ RawReadError
  \/ RawReadEOF

RawSpec == RawInit /\ [][RawNext]_vars

\* either of the two programs
BothInit == Start /\ mode \in {"accumulator", "raw"}

BothNext ==
  \/ \E doc \in Docs : ReadEntry(doc)
  \/ ReadError
  \/ ReadEOF
  \/ \E doc \in RawDocs : RawReadEntry(doc)
  \/ RawReadError
  \/ RawReadEOF

BothSpec == BothInit /\ [][BothNext]_vars

(***************************************************************************)
(* Calls of the functions of the packages, one call a run.                 *)
(***************************************************************************)
\* json-stats does not run
JsonStatsIdle ==
  /\ keyValueSets = EmptyMap
  /\ pc = "idle"
  /\ err = NilErr
  /\ out = <<>>
  /\ nread = 0
  /\ hist = EmptyMap

\* 16777217 = 2^24 + 1 = 0x4170000010000000
Pow24Plus1 == Float(16777217)

\* float64 values: the named ones, and every combination of a sign, an
\* exponent (the least, some within and some beyond those of a float32, the
\* greatest) and fraction bits on either side of the 23rd
FloatArgs ==
  {Half, Tenth, Pow33, MaxUint32, Float(0), Float(16777216), Pow24Plus1}
  \cup [sign : {0, 1},
        exp : {1, 873, 1022, 1023, 1047, 1151, 1223, 2046},
        fracHi : {0, 1, 4194304, 8388607},
        fracLo : {0, 1, 268435456, 536870911}]

\* a call: the function, and its argument under the name of its Go type
Call(fn, x) == [fn |-> fn, x |-> x]

AsFloat64(f) == [float64 |-> f]

AsString(s) == [string |-> s]

AsLicenseType(t) == [LicenseType |-> t]

\* papers.LicenseType: the names of the enum in the order of their numbers,
\* LICENSE_UNSPECIFIED = 0 ... LICENSE_OPEN_GOVERNMENT_LICENSE_CANADA = 16
LicenseTypeNames ==
  <<"LICENSE_UNSPECIFIED", "LICENSE_CC_BY", "LICENSE_CC_BY_NC_ND", "LICENSE_CC_BY_NC",
    "LICENCE_ARXIV", "LICENSE_CC_BY_NC_SA", "LICENSE_CC_BY_SA", "LICENSE_CC0",
    "LICENSE_ELSEVIER_SPECIFIC_OA_USER_LICENSE", "LICENSE_IMPLIED_OA",
    "LICENSE_PUBLIC_DOMAIN", "LICENSE_NO_CC_CODE", "LICENSE_CC_BY_ND",
    "LICENSE_PUBLISHER_SPECIFIC_LICENSE", "LICENSE_PUBLISHER_SPECIFIC_AUTHOR_MANUSCRIPT",
    "LICENSE_ACS_SPECIFIC_CHOICE_USAGE_AGREEMENT",
    "LICENSE_OPEN_GOVERNMENT_LICENSE_CANADA">>

\* the number of the enum value LicenseType_<name>
LicenseType(name) ==
  (CHOOSE i \in 1..Len(LicenseTypeNames) : LicenseTypeNames[i] = name) - 1

\* the values of the enum
LicenseTypes == 0..(Len(LicenseTypeNames) - 1)

\* fmt.Errorf("%w: unknown license %q", ErrParsePaperId, licenseType)
UnknownLicense(x) ==
  [format |-> "%w: unknown license %q", args |-> <<"parsing PaperId", x>>]

\* a value returned with a nil error, a value returned with an error
Ok(v) == [val |-> v, err |-> NilErr]

Fail(v, e) == [val |-> v, err |-> e]

ToLicenseType(licenseType) ==
  CASE licenseType = "" -> Ok(LicenseType("LICENSE_UNSPECIFIED"))
    [] licenseType \in {"cc-by", "CC BY"} -> Ok(LicenseType("LICENSE_CC_BY"))
    [] licenseType \in {"cc-by-nc-nd", "CC BY-NC-ND"} -> Ok(LicenseType("LICENSE_CC_BY_NC_ND"))
    [] licenseType \in {"cc-by-nc", "CC BY-NC"} -> Ok(LicenseType("LICENSE_CC_BY_NC"))
    [] licenseType = "arXiv" -> Ok(LicenseType("LICENCE_ARXIV"))
    [] licenseType \in {"cc-by-nc-sa", "CC BY-NC-SA"} -> Ok(LicenseType("LICENSE_CC_BY_NC_SA"))
    [] licenseType \in {"cc-by-sa", "CC BY-SA"} -> Ok(LicenseType("LICENSE_CC_BY_SA"))
    [] licenseType \in {"cc0", "CC0"} -> Ok(LicenseType("LICENSE_CC0"))
    [] licenseType = "elsevier-specific: oa user license" ->
         Ok(LicenseType("LICENSE_ELSEVIER_SPECIFIC_OA_USER_LICENSE"))
    [] licenseType = "implied-oa" -> Ok(LicenseType("LICENSE_IMPLIED_OA"))
    [] licenseType = "pd" -> Ok(LicenseType("LICENSE_PUBLIC_DOMAIN"))
    [] licenseType = "NO-CC CODE" -> Ok(LicenseType("LICENSE_NO_CC_CODE"))
    [] licenseType \in {"cc-by-nd", "CC BY-ND"} -> Ok(LicenseType("LICENSE_CC_BY_ND"))
    [] licenseType = "publisher-specific license" ->
         Ok(LicenseType("LICENSE_PUBLISHER_SPECIFIC_LICENSE"))
    [] licenseType = "publisher-specific, author manuscript" ->
         Ok(LicenseType("LICENSE_PUBLISHER_SPECIFIC_AUTHOR_MANUSCRIPT"))
    [] licenseType = "acs-specific: authorchoice/editors choice usage agreement" ->
         Ok(LicenseType("LICENSE_ACS_SPECIFIC_CHOICE_USAGE_AGREEMENT"))
    [] licenseType = "Open Government Licence - Canada" ->
         Ok(LicenseType("LICENSE_OPEN_GOVERNMENT_LICENSE_CANADA"))
    [] OTHER -> Fail(LicenseType("LICENSE_UNSPECIFIED"), UnknownLicense(licenseType))

\* the strings ToLicenseString returns, in the order of the enum
LicenseStrings ==
  <<"", "cc-by", "cc-by-nc-nd", "cc-by-nc", "arXiv", "cc-by-nc-sa", "cc-by-sa", "cc0",
    "elsevier-specific: oa user license", "implied-oa", "pd", "NO-CC CODE", "cc-by-nd",
    "publisher-specific license", "publisher-specific, author manuscript",
    "acs-specific: authorchoice/editors choice usage agreement",
    "Open Government Licence - Canada">>

\* ToLicenseString that writes the arXiv license in lower case
ToLicenseStringLower(licenseType) ==
  IF licenseType = LicenseType("LICENCE_ARXIV") THEN Ok("arxiv")
  ELSE IF licenseType \in LicenseTypes THEN Ok(LicenseStrings[licenseType + 1])
  ELSE Fail("", UnknownLicense(licenseType))

ToLicenseString(licenseType) ==
  IF licenseType \in LicenseTypes THEN Ok(LicenseStrings[licenseType + 1])
  ELSE Fail("", UnknownLicense(licenseType))

\* license strings: those of the switch of ToLicenseType and some that are
\* not, a spelling in the other case among them
LicenseArgs ==
  Range(LicenseStrings)
  \cup {"CC BY", "CC BY-NC-ND", "CC BY-NC", "CC BY-NC-SA", "CC BY-SA", "CC0", "CC BY-ND"}
  \cup {"CC-BY", "cc by", "arxiv", "PD", "mit", " "}

\* the values of the enum and two that are none
LicenseTypeArgs == LicenseTypes \cup {-1, Len(LicenseTypeNames)}

Return(v) == [val |-> v]

\* isFloat32(f) is called
CallIsFloat32 ==
  /\ mode = "call"
  /\ arg.fn = "isFloat32"
  /\ result = Nil
  /\ result' = Return(isFloat32(arg.x.float64))
  /\ UNCHANGED <<besideFn, arg>>

\* papers.ToLicenseType(licenseType) is called
CallToLicenseType ==
  /\ mode = "call"
  /\ arg.fn = "ToLicenseType"
  /\ result = Nil
  /\ result' = ToLicenseType(arg.x.string)
  /\ UNCHANGED <<besideFn, arg>>

\* papers.ToLicenseString(licenseType) is called
CallToLicenseString ==
  /\ mode = "call"
  /\ arg.fn = "ToLicenseString"
  /\ result = Nil
  /\ result' = ToLicenseString(arg.x.LicenseType)
  /\ UNCHANGED <<besideFn, arg>>

FnInit ==
  /\ JsonStatsIdle
  /\ SortIdle
  /\ PblIdle
  /\ GoIdle
  /\ mode = "call"
  /\ arg \in {Call("isFloat32", AsFloat64(f)) : f \in FloatArgs}
              \cup {Call("ToLicenseType", AsString(x)) : x \in LicenseArgs}
              \cup {Call("ToLicenseString", AsLicenseType(t)) : t \in LicenseTypeArgs}
  /\ result = Nil

FnNext ==
  \/ CallIsFloat32
  \/ CallToLicenseType
  \/ CallToLicenseString

FnSpec == FnInit /\ [][FnNext]_vars

(***************************************************************************)
(* jsonl.Sort, as sort-jsonl calls it.                                     *)
(***************************************************************************)
keyField == "file"

\* the i-th byte of s, counted from 0
At(s, i) == SubSeq(s, i + 1, i + 1)

HexLower == "0123456789abcdef"

HexUpper == "ABCDEF"

\* uuid: xvalues, 255 for a byte that is no hexadecimal digit
xvalue(c) ==
  IF \E i \in 1..Len(HexLower) : SubSeq(HexLower, i, i) = c
  THEN IndexOf(c, HexLower) - 1
  ELSE IF \E i \in 1..Len(HexUpper) : SubSeq(HexUpper, i, i) = c
  THEN IndexOf(c, HexUpper) + 9
  ELSE 255

\* uuid: the places of the 16 bytes in the 36 characters
ByteOffsets == <<0, 2, 4, 6, 9, 11, 14, 16, 19, 21, 24, 26, 28, 30, 32, 34>>

\* uuid.Parse of a string of 36 bytes, then id.MarshalBinary: the 16 bytes
ParseUUID(s) ==
  IF \/ At(s, 8) # "-" \/ At(s, 13) # "-" \/ At(s, 18) # "-" \/ At(s, 23) # "-"
     \/ \E i \in 1..16 : \/ xvalue(At(s, ByteOffsets[i])) = 255
                         \/ xvalue(At(s, ByteOffsets[i] + 1)) = 255
  THEN [ok |-> FALSE, bytes |-> <<>>]
  ELSE [ok |-> TRUE,
        bytes |-> [i \in 1..16 |-> xvalue(At(s, ByteOffsets[i])) * 16
                                     + xvalue(At(s, ByteOffsets[i] + 1))]]

\* binary.BigEndian.Uint64: the uint64 is kept as its 8 digits of base 256,
\* the most significant first
Uint64(b) == b

\* a < b on uint64
RECURSIVE Uint64Less(_, _)
Uint64Less(a, b) ==
  IF a = <<>> THEN FALSE
  ELSE IF Head(a) # Head(b) THEN Head(a) < Head(b)
  ELSE Uint64Less(Tail(a), Tail(b))

\* uint128{_1: left, _2: right}, the fields named as the values they hold
Uint128(idBytes) ==
  [left |-> Uint64(SubSeq(idBytes, 1, 8)), right |-> Uint64(SubSeq(idBytes, 9, 16))]

\* the less function of sort.Slice(keys, ...)
KeyLess(a, b) ==
  IF a.left # b.left THEN Uint64Less(a.left, b.left) ELSE Uint64Less(a.right, b.right)

\* sort.Slice(keys, ...): equal keys are the same value, so the result is one
RECURSIVE SortKeys(_)
SortKeys(ks) ==
  IF ks = <<>> THEN <<>>
  ELSE LET i == CHOOSE n \in 1..Len(ks) : \A m \in 1..Len(ks) : ~KeyLess(ks[m], ks[n])
       IN <<ks[i]>> \o SortKeys(SubSeq(ks, 1, i - 1) \o SubSeq(ks, i + 1, Len(ks)))

\* (*v)[k]
HasMember(obj, k) == \E i \in 1..Len(obj.members) : obj.members[i][1] = k

Member(obj, k) ==
  obj.members[CHOOSE i \in 1..Len(obj.members) : obj.members[i][1] = k][2]

\* "file" values: three UUIDs whose order as strings is not their order as
\* numbers, one of them with two spellings and with a file suffix
UuidOne == "00000000-0000-0000-0000-000000000001"

UuidLowerA == "0000000a-0000-0000-0000-000000000000"

UuidUpperA == "0000000A-0000-0000-0000-000000000000"

UuidUpperB == "0000000B-0000-0000-0000-000000000000"

UuidLowHalf == "00000000-0000-0000-ffff-ffffffffffff"

\* the entries the input of Sort can yield
SortEntries ==
  {Entry1(keyField, JStr(f)) :
     f \in {UuidOne, UuidOne \o ".software.json", UuidLowerA, UuidUpperA, UuidUpperB,
            UuidLowHalf}}
  \cup {Entry2(keyField, JStr(UuidOne), "n", JNum(Float(1)))}
  \cup {Entry1("n", JNum(Float(1))),
        Entry1(keyField, JNum(Float(1))),
        Entry1(keyField, JStr("0000000a")),
        Entry1(keyField, JStr("0000000a-0000-0000-0000-00000000000g")),
        Entry1(keyField, JStr("0000000a-0000-0000-0000000000000000a"))}

\* Sort: the input yields an entry
SortRead(v) ==
  /\ mode = "sort"
  /\ pc = "reading"
  /\ nread < MaxDocs
  /\ nread' = nread + 1
  /\ entries' = Append(entries, v)
  /\ IF ~HasMember(v, keyField)
     THEN /\ err' = [format |-> "entry missing key field %q", args |-> <<keyField>>]
          /\ pc' = "failed"
          /\ out' = Nil
          /\ UNCHANGED <<keys, valMap>>
     ELSE IF Member(v, keyField).kind # "string"
     THEN /\ err' = [format |-> "entry key field %q is %T, not a string",
                     args |-> <<Member(v, keyField), keyField>>]
          /\ pc' = "failed"
          /\ out' = Nil
          /\ UNCHANGED <<keys, valMap>>
     ELSE LET keyString == Member(v, keyField).s
          IN IF Len(keyString) < 36
             THEN \* keyString[:36] panics: slice bounds out of range
                  /\ pc' = "panicked"
                  /\ UNCHANGED <<err, out, keys, valMap>>
             ELSE LET id == ParseUUID(SubSeq(keyString, 1, 36))
                      key == Uint128(id.bytes)
                  IN IF ~id.ok
                     THEN /\ err' = [format |-> "entry key field %q is not a UUID: %w",
                                     args |-> <<keyString, "invalid UUID format">>]
                          /\ pc' = "failed"
                          /\ out' = Nil
                          /\ UNCHANGED <<keys, valMap>>
                     ELSE /\ keys' = Append(keys, key)
                          /\ valMap' = IF key \in DOMAIN valMap
                                        THEN [valMap EXCEPT ![key] = v]
                                        ELSE valMap @@ (key :> v)
                          /\ UNCHANGED <<err, out, pc>>
  /\ UNCHANGED besideSort

\* Sort: the input yields an error that is not io.EOF
SortReadError ==
  /\ mode = "sort"
  /\ pc = "reading"
  /\ err' = [format |-> "decode", args |-> <<>>]
  /\ pc' = "failed"
  /\ out' = Nil
  /\ UNCHANGED <<besideSort, nread, keys, valMap, entries>>

\* Sort: the input yields io.EOF or ends; the keys are sorted and the sequence
\* returned yields valMap[key] for every key
SortReadEOF ==
  /\ mode = "sort"
  /\ pc = "reading"
  /\ keys' = SortKeys(keys)
  /\ out' = [i \in 1..Len(keys) |-> valMap[SortKeys(keys)[i]]]
  /\ pc' = "done"
  /\ UNCHANGED <<besideSort, err, nread, valMap, entries>>

SortInit ==
  /\ keyValueSets = EmptyMap
  /\ pc = "reading"
  /\ err = NilErr
  /\ out = <<>>
  /\ nread = 0
  /\ hist = EmptyMap
  /\ mode = "sort"
  /\ FnIdle
  /\ SortIdle
  /\ PblIdle
  /\ GoIdle

SortNext ==
  \/ \E v \in SortEntries : SortRead(v)
  \/ SortReadError
  \/ SortReadEOF

SortSpec == SortInit /\ [][SortNext]_vars

(***************************************************************************)
(* paper-id-convert writes a .pbl file, license-count reads one.           *)
(***************************************************************************)
besidePbl == <<keyValueSets, hist, fnVars, sortVars, goVars>>

\* bufio: defaultBufSize, the size of the buffer of bufio.NewWriter(outFile)
BufSize == 4096

\* (*bufio.Writer).Write(p) on the writer w: the bytes it holds and the bytes
\* that have reached the file
RECURSIVE BufioWrite(_, _)
BufioWrite(w, p) ==
  IF Len(p) > BufSize - Len(w.buf)
  THEN IF Len(w.buf) = 0
       THEN [buf |-> <<>>, file |-> w.file \o p]
       ELSE LET n == BufSize - Len(w.buf)
            IN BufioWrite([buf |-> <<>>, file |-> w.file \o w.buf \o SubSeq(p, 1, n)],
                          SubSeq(p, n + 1, Len(p)))
  ELSE [buf |-> w.buf \o p, file |-> w.file]

\* binary.AppendUvarint(nil, x)
RECURSIVE AppendUvarint(_)
AppendUvarint(x) ==
  IF x < 128 THEN <<x>> ELSE <<(x % 128) + 128>> \o AppendUvarint(x \div 128)

\* binary.ReadUvarint on the bytes of b from offset i on, n bytes of the
\* number read so far; numbers of more than four bytes do not occur
RECURSIVE ReadUvarintFrom(_, _, _, _, _)
ReadUvarintFrom(b, i, mult, acc, n) ==
  IF i >= Len(b)
  THEN [err |-> IF n = 0 THEN "EOF" ELSE "unexpected EOF", val |-> 0, next |-> i]
  ELSE IF b[i + 1] < 128
  THEN [err |-> "", val |-> acc + b[i + 1] * mult, next |-> i + 1]
  ELSE IF n >= 3
  THEN [err |-> "overflow", val |-> 0, next |-> i]
  ELSE ReadUvarintFrom(b, i + 1, mult * 128, acc + (b[i + 1] - 128) * mult, n + 1)

ReadUvarint(b, i) == ReadUvarintFrom(b, i, 1, 0, 0)

\* the field numbers of the message PaperId
IdField == 1

LicenseField == 8

OaLinkField == 9

\* papers.PaperId, of its fields the id, the license and the link
PaperId(id, license, oaLink) == [id |-> id, license |-> license, oaLink |-> oaLink]

\* proto.Marshal: the fields that are set, by field number; a field is a tag
\* (8 * number + wire type), then a varint or a length and that many bytes
Marshal(m) ==
  (IF m.id = <<>> THEN <<>>
   ELSE <<8 * IdField + 2>> \o AppendUvarint(Len(m.id)) \o m.id)
  \o (IF m.license = 0 THEN <<>>
      ELSE <<8 * LicenseField>> \o AppendUvarint(m.license))
  \o (IF m.oaLink = <<>> THEN <<>>
      ELSE <<(8 * OaLinkField + 2) % 128>> \o AppendUvarint(Len(m.oaLink)) \o m.oaLink)

\* proto.Unmarshal of the bytes of b from offset i on into m; the fields not
\* kept here are skipped by their wire type
RECURSIVE UnmarshalFrom(_, _, _)
UnmarshalFrom(b, i, m) ==
  IF i = Len(b) THEN [ok |-> TRUE, msg |-> m]
  ELSE LET tag == ReadUvarint(b, i)
           num == tag.val \div 8
           wt == tag.val % 8
           v == ReadUvarint(b, tag.next)
       IN IF tag.err # "" \/ num = 0 THEN [ok |-> FALSE, msg |-> m]
          ELSE CASE wt = 0 ->
                      IF v.err # "" THEN [ok |-> FALSE, msg |-> m]
                      ELSE UnmarshalFrom(b, v.next,
                                         IF num = LicenseField
                                         THEN [m EXCEPT !.license = v.val] ELSE m)
                 [] wt = 2 ->
                      IF v.err # "" \/ v.next + v.val > Len(b)
                      THEN [ok |-> FALSE, msg |-> m]
                      ELSE LET sub == SubSeq(b, v.next + 1, v.next + v.val)
                           IN UnmarshalFrom(b, v.next + v.val,
                                            IF num = IdField THEN [m EXCEPT !.id = sub]
                                            ELSE IF num = OaLinkField
                                            THEN [m EXCEPT !.oaLink = sub]
                                            ELSE m)
                 [] wt = 1 ->
                      IF tag.next + 8 > Len(b) THEN [ok |-> FALSE, msg |-> m]
                      ELSE UnmarshalFrom(b, tag.next + 8, m)
                 [] wt = 5 ->
                      IF tag.next + 4 > Len(b) THEN [ok |-> FALSE, msg |-> m]
                      ELSE UnmarshalFrom(b, tag.next + 4, m)
                 [] OTHER -> [ok |-> FALSE, msg |-> m]

Unmarshal(b) == UnmarshalFrom(b, 0, PaperId(<<>>, 0, <<>>))

\* papers.UUID{Id: bytes} of a text, as the bytes of the field Id of PaperId
UuidField(text) == <<8 + 2, 16>> \o ParseUUID(text).bytes

\* a link of n characters
Link(n) == [i \in 1..n |-> 97]

\* the records of the input of paper-id-convert: of one paper and of
\* another, of three licenses, one with a link of 130 bytes
SmallPaperIds ==
  {PaperId(UuidField(UuidOne), LicenseType("LICENSE_UNSPECIFIED"), <<>>),
   PaperId(UuidField(UuidOne), LicenseType("LICENSE_CC_BY"), <<>>),
   PaperId(UuidField(UuidLowerA), LicenseType("LICENSE_CC_BY"), <<>>),
   PaperId(UuidField(UuidLowerA), LicenseType("LICENSE_OPEN_GOVERNMENT_LICENSE_CANADA"),
           Link(130))}

\* and one whose encoding is longer than the buffer of the writer
PaperIds ==
  SmallPaperIds
    \cup {PaperId(UuidField(UuidOne), LicenseType("LICENSE_CC_BY_NC"), Link(BufSize + 4))}

\* make([]int, papers.LicenseType_LICENSE_OPEN_GOVERNMENT_LICENSE_CANADA+1),
\* the count of license t at place t + 1
NewLicenseMap == [i \in 1..Len(LicenseTypeNames) |-> 0]

\* paper-id-convert: a line is read and converted, its length (not) and its
\* encoding are written
PicWrite(idProto) ==
  /\ mode = "paper-id-convert"
  /\ pc = "writing"
  /\ nread < MaxDocs
  /\ LET protoBytes == Marshal(idProto)
         \* var buf []byte; the result of binary.AppendUvarint(buf, ...) is dropped
         nobuf == <<>>
         w1 == BufioWrite([buf |-> writer, file |-> stream], nobuf)
         w2 == BufioWrite(w1, protoBytes)
     IN /\ writer' = w2.buf
        /\ stream' = w2.file
        /\ written' = Append(written, protoBytes)
  /\ nread' = nread + 1
  /\ UNCHANGED <<besidePbl, mode, pc, err, out, offset, licenseMap, recovered>>

\* paper-id-convert: a line cannot be read or converted
PicReadError ==
  /\ mode = "paper-id-convert"
  /\ pc = "writing"
  /\ err' = [format |-> "decode", args |-> <<>>]
  /\ pc' = "failed"
  /\ UNCHANGED <<besidePbl, mode, out, nread, pblVars>>

\* paper-id-convert: the input ends, runE returns and the file is closed with
\* what the writer holds not flushed; license-count is started on the file
PicEOF ==
  /\ mode = "paper-id-convert"
  /\ pc = "writing"
  /\ mode' = "license-count"
  /\ pc' = "reading"
  /\ nread' = 0
  /\ offset' = 0
  /\ licenseMap' = NewLicenseMap
  /\ UNCHANGED <<besidePbl, err, out, writer, stream, written, recovered>>

\* license-count: a length is read, that many bytes are read and unmarshalled,
\* the license of the entry is counted
LcRead ==
  /\ mode = "license-count"
  /\ pc = "reading"
  /\ offset < Len(stream)
  /\ LET nProtoBytes == ReadUvarint(stream, offset)
         end == nProtoBytes.next + nProtoBytes.val
         entryBytes == SubSeq(stream, nProtoBytes.next + 1, end)
         entry == Unmarshal(entryBytes)
     IN IF nProtoBytes.err # ""
        THEN /\ err' = [format |-> "%w: reading proto size: %w",
                        args |-> <<"counting licenses", nProtoBytes.err>>]
             /\ pc' = "failed"
             /\ UNCHANGED <<nread, offset, licenseMap, recovered>>
        ELSE IF end > Len(stream)
        THEN /\ err' = [format |-> "unexpected EOF", args |-> <<>>]
             /\ pc' = "failed"
             /\ UNCHANGED <<nread, offset, licenseMap, recovered>>
        ELSE IF ~entry.ok
        THEN /\ err' = [format |-> "%w: unmarshalling proto: %w",
                        args |-> <<"counting licenses", "proto">>]
             /\ pc' = "failed"
             /\ UNCHANGED <<nread, offset, licenseMap, recovered>>
        ELSE IF entry.msg.license >= Len(licenseMap)
        THEN \* licenseMap[entry.License] panics: index out of range
             /\ pc' = "panicked"
             /\ UNCHANGED <<err, nread, offset, licenseMap, recovered>>
        ELSE /\ licenseMap' = [licenseMap EXCEPT ![entry.msg.license + 1] = @ + 1]
             /\ recovered' = Append(recovered, entryBytes)
             /\ offset' = end
             /\ nread' = nread + 1
             /\ UNCHANGED <<err, pc>>
  /\ UNCHANGED <<besidePbl, mode, out, writer, stream, written>>

\* sort.Slice(licenseMap, ...): licenses[i] is i, so the less function is
\* licenseMap[i] > licenseMap[j] and the counts themselves are sorted
RECURSIVE SortDescending(_)
SortDescending(q) ==
  IF q = <<>> THEN <<>>
  ELSE LET i == CHOOSE n \in 1..Len(q) : \A m \in 1..Len(q) : q[m] <= q[n]
       IN <<q[i]>> \o SortDescending(SubSeq(q, 1, i - 1) \o SubSeq(q, i + 1, Len(q)))

\* license-count: the file ends; licenseMap is sorted, a line is printed for
\* every license of licenses, then an empty line
LcEOF ==
  /\ mode = "license-count"
  /\ pc = "reading"
  /\ offset = Len(stream)
  /\ licenseMap' = SortDescending(licenseMap)
  /\ out' = [license \in 1..Len(licenseMap) |->
               [licenseStr |-> ToLicenseString(license - 1).val,
                count |-> SortDescending(licenseMap)[license]]]
             \o <<[licenseStr |-> ""]>>
  /\ pc' = "done"
  /\ UNCHANGED <<besidePbl, mode, err, nread, writer, stream, written, offset, recovered>>

PblInit ==
  /\ keyValueSets = EmptyMap
  /\ pc = "writing"
  /\ err = NilErr
  /\ out = <<>>
  /\ nread = 0
  /\ hist = EmptyMap
  /\ mode = "paper-id-convert"
  /\ FnIdle
  /\ SortIdle
  /\ PblIdle
  /\ GoIdle

PblNext ==
  \/ \E idProto \in PaperIds : PicWrite(idProto)
  \/ PicReadError
  \/ PicEOF
  \/ LcRead
  \/ LcEOF

PblSpec == PblInit /\ [][PblNext]_vars

\* a .pbl file: every record as the uvarint of its length and its bytes
RECURSIVE Frame(_)
Frame(records) ==
  IF records = <<>> THEN <<>>
  ELSE AppendUvarint(Len(Head(records))) \o Head(records) \o Frame(Tail(records))

\* the files license-count is run on
LcFiles ==
  {Frame([i \in 1..Len(ms) |-> Marshal(ms[i])]) :
     ms \in UNION {[1..n -> SmallPaperIds] : n \in 0..MaxDocs}}

LcInit ==
  /\ keyValueSets = EmptyMap
  /\ pc = "reading"
  /\ err = NilErr
  /\ out = <<>>
  /\ nread = 0
  /\ hist = EmptyMap
  /\ mode = "license-count"
  /\ FnIdle
  /\ SortIdle
  /\ GoIdle
  /\ writer = <<>>
  /\ stream \in LcFiles
  /\ written = <<>>
  /\ offset = 0
  /\ licenseMap = NewLicenseMap
  /\ recovered = <<>>

LcNext ==
  \/ LcRead
  \/ LcEOF

LcSpec == LcInit /\ [][LcNext]_vars

(***************************************************************************)
(* mentions-convert: a goroutine walks the directory and sends a message   *)
(* for every file on a channel, a second one writes the messages to the    *)
(* output and counts their names, runE waits for the second one.           *)
(***************************************************************************)
\* the variables mentions-convert has no part in
besideConv == <<keyValueSets, pc, nread, hist, mode, fnVars, sortVars, pblVars, countVars>>

\* the capacity of the channel mentions
MentionsCap == 1000

\* the most files of a walk
MaxFiles == 3

\* make(chan T, n)
MakeChan == [buf |-> <<>>, closed |-> FALSE]

\* a file of the walk: one whose name has no 36 characters before the first
\* ".", one that fails (the name is no UUID, it cannot be opened or decoded),
\* and one that decodes to mentions of these normalized names
SkippedFile == [kind |-> "skipped", names |-> <<>>]

FailingFile == [kind |-> "failing", names |-> <<>>]

SoftwareJson(names) == [kind |-> "mentions", names |-> names]

WalkFiles ==
  {SkippedFile, FailingFile, SoftwareJson(<<>>), SoftwareJson(<<"a">>),
   SoftwareJson(<<"b", "a", "b">>)}

\* the walks of up to MaxFiles files, in the order of processDirectory
Walks == UNION {[1..n -> WalkFiles] : n \in 0..MaxFiles}

\* the message processFile sends for the file with the given id
Mentions(id, names) == [id |-> id, names |-> names]

\* counts[name]++ for every name of the sequence
RECURSIVE CountNames(_, _)
CountNames(m, names) ==
  IF names = <<>> THEN m
  ELSE LET name == Head(names)
           n == IF name \in DOMAIN m THEN m[name] + 1 ELSE 1
       IN CountNames([k \in DOMAIN m \cup {name} |-> IF k = name THEN n ELSE m[k]],
                     Tail(names))

Running == goroutine # Nil /\ goroutine.process = "running"

\* an access of a goroutine to counts, with the state of the channel and of
\* the writer when it happens
Access(by, op) ==
  [by |-> by, op |-> op, closed |-> mentions.closed, pending |-> Len(mentions.buf),
   writer |-> goroutine.writer]

\* a goroutine panics: the process ends
Panic == goroutine' = [goroutine EXCEPT !.process = "panicked"]

\* processFile returns nil without sending
WalkerSkip ==
  /\ Running
  /\ goroutine.walker = "walking"
  /\ walk # <<>>
  /\ Head(walk).kind = "skipped"
  /\ walk' = Tail(walk)
  /\ UNCHANGED <<besideConv, err, out, goroutine, accesses, mentions, counts, writeWg,
                 mention, outFile, sent>>

\* processFile returns an error, processDirectory returns it, the goroutine panics
WalkerPanic ==
  /\ Running
  /\ goroutine.walker = "walking"
  /\ walk # <<>>
  /\ Head(walk).kind = "failing"
  /\ Panic
  /\ UNCHANGED <<besideConv, err, out, accesses, convVars>>

\* out <- mention, which waits while the channel is full
WalkerSend ==
  /\ Running
  /\ goroutine.walker = "walking"
  /\ walk # <<>>
  /\ Head(walk).kind = "mentions"
  /\ Len(mentions.buf) < MentionsCap
  /\ LET m == Mentions(Len(sent) + 1, Head(walk).names)
     IN /\ mentions' = [mentions EXCEPT !.buf = Append(@, m)]
        /\ sent' = Append(sent, m)
  /\ walk' = Tail(walk)
  /\ UNCHANGED <<besideConv, err, out, goroutine, accesses, counts, writeWg, mention,
                 outFile>>

\* processDirectory returns nil: close(mentions)
WalkerClose ==
  /\ Running
  /\ goroutine.walker = "walking"
  /\ walk = <<>>
  /\ mentions' = [mentions EXCEPT !.closed = TRUE]
  /\ goroutine' = [goroutine EXCEPT !.walker = "done"]
  /\ UNCHANGED <<besideConv, err, out, accesses, walk, counts, writeWg, mention,
                 outFile, sent>>

\* os.Create(outPath) succeeds
WriterCreate ==
  /\ Running
  /\ goroutine.writer = "create"
  /\ goroutine' = [goroutine EXCEPT !.writer = "range"]
  /\ UNCHANGED <<besideConv, err, out, accesses, convVars>>

\* os.Create(outPath) fails
WriterCreatePanic ==
  /\ Running
  /\ goroutine.writer = "create"
  /\ Panic
  /\ UNCHANGED <<besideConv, err, out, accesses, convVars>>

\* for mention := range mentions: a message is received
WriterReceive ==
  /\ Running
  /\ goroutine.writer = "range"
  /\ mentions.buf # <<>>
  /\ mention' = Head(mentions.buf)
  /\ mentions' = [mentions EXCEPT !.buf = Tail(@)]
  /\ goroutine' = [goroutine EXCEPT !.writer = "count"]
  /\ UNCHANGED <<besideConv, err, out, accesses, walk, counts, writeWg, outFile, sent>>

\* counts[m.SoftwareName.NormalizedForm]++ for the mentions of the message
WriterCount ==
  /\ Running
  /\ goroutine.writer = "count"
  /\ counts' = CountNames(counts, mention.names)
  /\ accesses' = IF mention.names = <<>> THEN accesses
                 ELSE accesses \cup {Access("writer", "write")}
  /\ goroutine' = [goroutine EXCEPT !.writer = "write"]
  /\ UNCHANGED <<besideConv, err, out, walk, mentions, writeWg, mention, outFile, sent>>

\* writeProto(outFile, mention) succeeds
WriterWrite ==
  /\ Running
  /\ goroutine.writer = "write"
  /\ outFile' = Append(outFile, mention)
  /\ goroutine' = [goroutine EXCEPT !.writer = "range"]
  /\ UNCHANGED <<besideConv, err, out, accesses, walk, mentions, counts, writeWg,
                 mention, sent>>

\* writeProto(outFile, mention) fails
WriterWritePanic ==
  /\ Running
  /\ goroutine.writer = "write"
  /\ Panic
  /\ UNCHANGED <<besideConv, err, out, accesses, convVars>>

\* the channel is closed and empty: the loop ends, writeWg.Done()
WriterDone ==
  /\ Running
  /\ goroutine.writer = "range"
  /\ mentions.buf = <<>>
  /\ mentions.closed
  /\ writeWg' = writeWg - 1
  /\ goroutine' = [goroutine EXCEPT !.writer = "done"]
  /\ UNCHANGED <<besideConv, err, out, accesses, walk, mentions, counts, mention,
                 outFile, sent>>

\* writeWg.Wait() returns without waiting
MainNoWait ==
  /\ Running
  /\ goroutine.main = "wait"
  /\ goroutine' = [goroutine EXCEPT !.main = "waited"]
  /\ UNCHANGED <<besideConv, err, out, accesses, convVars>>

\* writeWg.Wait() returns
MainWait ==
  /\ Running
  /\ goroutine.main = "wait"
  /\ writeWg = 0
  /\ goroutine' = [goroutine EXCEPT !.main = "waited"]
  /\ UNCHANGED <<besideConv, err, out, accesses, convVars>>

\* --mention-counts is not given: return nil
MainReturn ==
  /\ Running
  /\ goroutine.main = "waited"
  /\ goroutine.mentionCountsPath = ""
  /\ goroutine' = [goroutine EXCEPT !.main = "returned", !.process = "exited"]
  /\ UNCHANGED <<besideConv, err, out, accesses, convVars>>

\* the names of counts are sorted by their counts, the greatest first, and a
\* line is written for each
MainWriteCounts ==
  /\ Running
  /\ goroutine.main = "waited"
  /\ goroutine.mentionCountsPath # ""
  /\ \E names \in Perms(DOMAIN counts) :
       /\ \A i \in 1..Len(names) - 1 : counts[names[i]] >= counts[names[i + 1]]
       /\ out' = [i \in 1..Len(names) |-> [name |-> names[i], count |-> counts[names[i]]]]
  /\ accesses' = accesses \cup {Access("main", "read")}
  /\ goroutine' = [goroutine EXCEPT !.main = "returned", !.process = "exited"]
  /\ UNCHANGED <<besideConv, err, convVars>>

\* os.Create(mentionCountsPath) or a write fails: the error is returned
MainWriteCountsError ==
  /\ Running
  /\ goroutine.main = "waited"
  /\ goroutine.mentionCountsPath # ""
  /\ err' = [format |-> "creating file for mention counts: %w", args |-> <<"create">>]
  /\ accesses' = accesses \cup {Access("main", "read")}
  /\ goroutine' = [goroutine EXCEPT !.main = "returned", !.process = "exited"]
  /\ UNCHANGED <<besideConv, out, convVars>>

ConvInit ==
  /\ JsonStatsIdle
  /\ FnIdle
  /\ SortIdle
  /\ PblIdle
  /\ mode = "mentions-convert"
  /\ goroutine \in {[walker |-> "walking", writer |-> "create", main |-> "wait",
                     process |-> "running", mentionCountsPath |-> p] : p \in {"", "counts"}}
  /\ accesses = {}
  /\ walk \in Walks
  /\ mentions = MakeChan
  /\ counts = <<>>
  /\ writeWg = 1
  /\ mention = Nil
  /\ outFile = <<>>
  /\ sent = <<>>
  /\ maps = Nil
  /\ softwareMap = <<>>
  /\ entrySoftwareMap = Nil
  /\ processed = <<>>
  /\ dirEntries = <<>>
  /\ mergeWg = 0

Walker == WalkerSkip \/ WalkerPanic \/ WalkerSend \/ WalkerClose

Writer ==
  \/ WriterCreate
  \/ WriterCreatePanic
  \/ WriterReceive
  \/ WriterCount
  \/ WriterWrite
  \/ WriterWritePanic
  \/ WriterDone

Main == MainWait \/ MainReturn \/ MainWriteCounts \/ MainWriteCountsError

ConvNext == Walker \/ Writer \/ Main

ConvSpec == ConvInit /\ [][ConvNext]_vars

\* the scheduler runs every goroutine that can take a step
ConvFairSpec == ConvSpec /\ WF_vars(Walker) /\ WF_vars(Writer) /\ WF_vars(Main)

(***************************************************************************)
(* mentions-count, first pass: runE counts the names of every file and     *)
(* sends the map of the file on a channel; a goroutine adds the maps it    *)
(* receives to softwareMap; runE closes the channel, waits and reads.      *)
(***************************************************************************)
\* the variables mentions-count has no part in
besideCount == <<keyValueSets, pc, nread, hist, mode, fnVars, sortVars, pblVars, convVars>>

\* the capacity of the channel maps
MapsCap == 10

\* the most files of a directory, but for the one long directory
MaxEntries == 2

\* a mention of a paper
SoftwareMention(softwareType, normalizedForm) ==
  [softwareType |-> softwareType, normalizedForm |-> normalizedForm]

\* the names processFile does not count
StopNames ==
  {"script", "code", "scripts", "survival", "library", "software", "interface", "program"}

\* a file that cannot be opened or read, and files with these mentions
UnreadableFile == [kind |-> "unreadable", mentions |-> <<>>]

JsonlGz(ms) == [kind |-> "jsonl", mentions |-> ms]

FileOfA == JsonlGz(<<SoftwareMention("", "a")>>)

FileOfAB ==
  JsonlGz(<<SoftwareMention("", "b"), SoftwareMention("implicit", "a"),
            SoftwareMention("", "a"), SoftwareMention("", "code"),
            SoftwareMention("", "b")>>)

DirFiles == {UnreadableFile, JsonlGz(<<>>), FileOfA, FileOfAB}

\* a directory with more files than the channel holds
LongDir == [i \in 1..MapsCap + 2 |-> IF i % 3 = 0 THEN FileOfAB ELSE FileOfA]

\* the filtered entries of a directory
Dirs == UNION {[1..n -> DirFiles] : n \in 0..MaxEntries} \cup {LongDir}

\* m[name] of a Go map: 0 for a name that is no key
Get(m, name) == IF name \in DOMAIN m THEN m[name] ELSE 0

\* m[name] += count
AddTo(m, name, count) ==
  [k \in DOMAIN m \cup {name} |-> IF k = name THEN Get(m, name) + count ELSE m[k]]

\* the map processFile returns for the mentions of a file
RECURSIVE FileSoftwareMap(_)
FileSoftwareMap(ms) ==
  IF ms = <<>> THEN <<>>
  ELSE LET mention1 == ms[Len(ms)]
           m == FileSoftwareMap(SubSeq(ms, 1, Len(ms) - 1))
       IN IF mention1.softwareType = "implicit" \/ mention1.normalizedForm \in StopNames
          THEN m
          ELSE AddTo(m, mention1.normalizedForm, 1)

\* an access of a goroutine to softwareMap, with the state of the channel and
\* of the merge goroutine when it happens
CountAccess(by, op) ==
  [by |-> by, op |-> op, closed |-> maps.closed, pending |-> Len(maps.buf),
   merge |-> goroutine.merge]

\* processFile returns the map of the next file
CountProcessFile ==
  /\ Running
  /\ goroutine.main = "loop"
  /\ dirEntries # <<>>
  /\ Head(dirEntries).kind = "jsonl"
  /\ processed' = Append(processed, FileSoftwareMap(Head(dirEntries).mentions))
  /\ dirEntries' = Tail(dirEntries)
  /\ goroutine' = [goroutine EXCEPT !.main = "send"]
  /\ UNCHANGED <<besideCount, err, out, accesses, maps, softwareMap, entrySoftwareMap,
                 mergeWg>>

\* processFile returns an error: runE returns it
CountProcessFileError ==
  /\ Running
  /\ goroutine.main = "loop"
  /\ dirEntries # <<>>
  /\ Head(dirEntries).kind = "unreadable"
  /\ err' = [format |-> "%w: opening %q: %w", args |-> <<"ErrCountLicenses">>]
  /\ goroutine' = [goroutine EXCEPT !.main = "returned", !.process = "exited"]
  /\ UNCHANGED <<besideCount, out, accesses, countVars>>

\* maps <- entrySoftwareMap, which waits while the channel is full
CountSend ==
  /\ Running
  /\ goroutine.main = "send"
  /\ Len(maps.buf) < MapsCap
  /\ maps' = [maps EXCEPT !.buf = Append(@, processed[Len(processed)])]
  /\ goroutine' = [goroutine EXCEPT !.main = "loop"]
  /\ UNCHANGED <<besideCount, err, out, accesses, softwareMap, entrySoftwareMap,
                 processed, dirEntries, mergeWg>>

\* the loop over the entries ends: close(maps)
CountClose ==
  /\ Running
  /\ goroutine.main = "loop"
  /\ dirEntries = <<>>
  /\ maps' = [maps EXCEPT !.closed = TRUE]
  /\ goroutine' = [goroutine EXCEPT !.main = "wait"]
  /\ UNCHANGED <<besideCount, err, out, accesses, softwareMap, entrySoftwareMap,
                 processed, dirEntries, mergeWg>>

\* mergeWg.Wait() returns without waiting
CountNoWait ==
  /\ Running
  /\ goroutine.main = "wait"
  /\ goroutine' = [goroutine EXCEPT !.main = "read"]
  /\ UNCHANGED <<besideCount, err, out, accesses, countVars>>

\* mergeWg.Wait() returns
CountWait ==
  /\ Running
  /\ goroutine.main = "wait"
  /\ mergeWg = 0
  /\ goroutine' = [goroutine EXCEPT !.main = "read"]
  /\ UNCHANGED <<besideCount, err, out, accesses, countVars>>

\* the names counted 100 times and more, in an order of the range over the map
Software(m, order) == SelectSeq(order, LAMBDA k : m[k] >= 100)

\* runE ranges over softwareMap, sorts the names kept and prints the first
\* hundred: software[:100] panics unless append has grown the slice to a
\* capacity of 100 and more, which it has from the 65th name on
CountRead ==
  /\ Running
  /\ goroutine.main = "read"
  /\ accesses' = accesses \cup {CountAccess("main", "read")}
  /\ \E order \in Perms(DOMAIN softwareMap) :
       LET software == Software(softwareMap, order)
       IN IF Len(software) <= 64
          THEN /\ goroutine' = [goroutine EXCEPT !.main = "panicked", !.process = "panicked"]
               /\ out' = out
          ELSE /\ goroutine' = [goroutine EXCEPT !.main = "printed"]
               /\ \E sorted \in Perms(Range(software)) :
                    /\ \A i \in 1..Len(sorted) - 1 :
                         softwareMap[sorted[i]] >= softwareMap[sorted[i + 1]]
                    /\ out' = [i \in 1..100 |->
                                 IF i <= Len(sorted)
                                 THEN [name |-> sorted[i], count |-> softwareMap[sorted[i]]]
                                 ELSE [name |-> "", count |-> 0]]
  /\ UNCHANGED <<besideCount, err, countVars>>

\* for entrySoftwareMap := range maps: a map is received
MergeReceive ==
  /\ Running
  /\ goroutine.merge = "range"
  /\ maps.buf # <<>>
  /\ entrySoftwareMap' = Head(maps.buf)
  /\ maps' = [maps EXCEPT !.buf = Tail(@)]
  /\ goroutine' = [goroutine EXCEPT !.merge = "add"]
  /\ UNCHANGED <<besideCount, err, out, accesses, softwareMap, processed, dirEntries,
                 mergeWg>>

\* softwareMap[name] += count
MergeAdd(name) ==
  /\ softwareMap' = AddTo(softwareMap, name, entrySoftwareMap[name])

\* one turn of the loop over the map received, in the order the range takes;
\* entrySoftwareMap keeps the names the loop has yet to come to
MergeRange ==
  /\ Running
  /\ goroutine.merge = "add"
  /\ entrySoftwareMap # <<>>
  /\ \E name \in DOMAIN entrySoftwareMap :
       /\ MergeAdd(name)
       /\ entrySoftwareMap' = [k \in DOMAIN entrySoftwareMap \ {name} |-> entrySoftwareMap[k]]
  /\ accesses' = accesses \cup {CountAccess("merge", "write")}
  /\ UNCHANGED <<besideCount, err, out, goroutine, maps, processed, dirEntries, mergeWg>>

\* the loop over the map received ends
MergeRangeEnd ==
  /\ Running
  /\ goroutine.merge = "add"
  /\ entrySoftwareMap = <<>>
  /\ entrySoftwareMap' = Nil
  /\ goroutine' = [goroutine EXCEPT !.merge = "range"]
  /\ UNCHANGED <<besideCount, err, out, accesses, maps, softwareMap, processed,
                 dirEntries, mergeWg>>

\* the channel is closed and empty: the loop ends, mergeWg.Done()
MergeDone ==
  /\ Running
  /\ goroutine.merge = "range"
  /\ maps.buf = <<>>
  /\ maps.closed
  /\ mergeWg' = mergeWg - 1
  /\ goroutine' = [goroutine EXCEPT !.merge = "done"]
  /\ UNCHANGED <<besideCount, err, out, accesses, maps, softwareMap, entrySoftwareMap,
                 processed, dirEntries>>

CountInit ==
  /\ JsonStatsIdle
  /\ FnIdle
  /\ SortIdle
  /\ PblIdle
  /\ mode = "mentions-count"
  /\ goroutine = [merge |-> "range", main |-> "loop", process |-> "running"]
  /\ accesses = {}
  /\ walk = <<>>
  /\ mentions = Nil
  /\ counts = <<>>
  /\ writeWg = 0
  /\ mention = Nil
  /\ outFile = <<>>
  /\ sent = <<>>
  /\ maps = MakeChan
  /\ softwareMap = <<>>
  /\ entrySoftwareMap = Nil
  /\ processed = <<>>
  /\ dirEntries \in Dirs
  /\ mergeWg = 1

CountNext ==
  \/ CountProcessFile
  \/ CountProcessFileError
  \/ CountSend
  \/ CountClose
  \/ CountWait
  \/ CountRead
  \/ MergeReceive
  \/ MergeRange
  \/ MergeRangeEnd
  \/ MergeDone

CountSpec == CountInit /\ [][CountNext]_vars

(***************************************************************************)
(* Properties.                                                             *)
(***************************************************************************)
BoolType == "*jsonl.BoolField"

NumberType == "*jsonl.NumberField"

StringType == "*jsonl.StringField"

Concrete(f) == f.type \in {BoolType, NumberType, StringType}

\* the JSON kind a concrete accumulator accepts
Accepts(f) ==
  CASE f.type = BoolType   -> "bool"
    [] f.type = NumberType -> "number"
    [] f.type = StringType -> "string"

\* one value of every JSON kind
Samples ==
  {JNull, JBool(TRUE), JBool(FALSE), JNum(Float(1)), JNum(Half), JStr("x"),
   JStr("s1"), JArr(<<>>), JObj(<<>>)}

HasSeen(f) == f.type \in {NumberType, StringType}

Size(f) == Cardinality(DOMAIN f.Seen)

\* the leaf a key of a Seen table was added as
LeafOf(f, k) == IF f.type = NumberType THEN JNum(k) ELSE JStr(k)

\* how often leaf v was added at path p in history h
HistCount(h, p, v) ==
  IF p \in DOMAIN h THEN (IF v \in DOMAIN h[p] THEN h[p][v] ELSE 0) ELSE 0

RECURSIVE SumOver(_, _)
SumOver(bag, S) ==
  IF S = {} THEN 0
  ELSE LET v == CHOOSE x \in S : TRUE IN bag[v] + SumOver(bag, S \ {v})

\* how many leaves were added at path p in history h
HistTotal(h, p) == IF p \in DOMAIN h THEN SumOver(h[p], DOMAIN h[p]) ELSE 0

\* C1: a concrete accumulator rejects every value of another JSON kind with an
\* error, the registry is left as it was by the rejected value, and no path's
\* accumulator ever changes its kind.
C1_KindIsFixed ==
  [][\A p \in DOMAIN keyValueSets' :
       LET f == keyValueSets'[p]
       IN /\ Concrete(f)
          /\ \A v \in Samples :
               v.kind # Accepts(f) =>
                 /\ FieldAdd(f, v).err # NilErr
                 /\ FieldAdd(f, v).f = Nil
                 /\ addKVsEach(<<p>>, <<v>>, keyValueSets').kvs = keyValueSets'
          /\ p \in DOMAIN keyValueSets => keyValueSets[p].type = f.type
          /\ (pc' = "failed" /\ hist' = hist) => keyValueSets' = keyValueSets]_vars

C1_Witness ==
  /\ pc = "failed"
  /\ err.args = <<"bool", NumberType>>
  /\ ".a" \in DOMAIN keyValueSets
  /\ keyValueSets[".a"].type = NumberType

\* a string leaf of doc lies at a path that holds a NumberField
NumberThenString(kvs, doc) ==
  LET ls == Leaves("", doc)
  IN \E i \in 1..Len(ls) :
       /\ ls[i][2].kind = "string"
       /\ ls[i][1] \in DOMAIN kvs
       /\ kvs[ls[i][1]].type = NumberType

\* C2: reading an entry with a string at a path first seen as a number fails
\* the run with the type-mismatch error of Add, and a failed run has written
\* no output row.
C2_NumberThenStringFails ==
  [][/\ \A doc \in Docs :
          (NumberThenString(keyValueSets, doc) /\ ReadEntry(doc)) =>
            /\ pc' = "failed"
            /\ err'.format = "unknown type %T added to %T"
            /\ err'.args[2] \in {BoolType, NumberType, StringType}
            /\ out' = <<>>
     /\ pc' = "failed" => (err' # NilErr /\ out' = <<>>)
     /\ pc = "failed" => pc' = "failed"]_vars

C2_Witness ==
  /\ pc = "failed"
  /\ err.args = <<"string", NumberType>>
  /\ out = <<>>
  /\ \E p \in DOMAIN keyValueSets : keyValueSets[p].type = NumberType

\* C3 (as claimed): once a table holds more than MaxEnum values, every further
\* Add of a value already in the table still increments that value's count.
C3_CountsKeepIncrementing ==
  [][\A p \in DOMAIN keyValueSets :
       LET f == keyValueSets[p]
       IN (HasSeen(f) /\ Size(f) > MaxEnum) =>
            \A k \in DOMAIN f.Seen :
              keyValueSets'[p].Seen[k] - f.Seen[k]
                = HistCount(hist', p, LeafOf(f, k)) - HistCount(hist, p, LeafOf(f, k))]_vars

\* C3 (amended): once a table holds more than MaxEnum values it is frozen: no
\* further Add changes a key or a count of it.  Until then every Add is
\* counted: a step whose Adds all find at most MaxEnum values in the table
\* raises each count by the number of Adds of that value.
C3_TableFrozenPastMaxEnum ==
  [][\A p \in DOMAIN keyValueSets' :
       LET g == keyValueSets'[p]
           had == p \in DOMAIN keyValueSets
           n == IF had THEN Size(keyValueSets[p]) ELSE 0
       IN HasSeen(g) =>
            /\ (had /\ n > MaxEnum) => g.Seen = keyValueSets[p].Seen
            /\ n + (HistTotal(hist', p) - HistTotal(hist, p)) <= MaxEnum + 1 =>
                 \A k \in DOMAIN g.Seen :
                   g.Seen[k] - (IF had /\ k \in DOMAIN keyValueSets[p].Seen
                                THEN keyValueSets[p].Seen[k] ELSE 0)
                     = HistCount(hist', p, LeafOf(g, k)) - HistCount(hist, p, LeafOf(g, k))]_vars

\* a value already in a full table was added again
C3_Witness ==
  \E p \in DOMAIN keyValueSets :
    /\ HasSeen(keyValueSets[p])
    /\ Size(keyValueSets[p]) > MaxEnum
    /\ \E k \in DOMAIN keyValueSets[p].Seen :
         HistCount(hist, p, LeafOf(keyValueSets[p], k)) > keyValueSets[p].Seen[k]

\* -2^31 and -2^63, 2^63 and 2^64 as float64
MinInt32 == [sign |-> 1, exp |-> ExpBias + 31, fracHi |-> 0, fracLo |-> 0]

MinInt64 == [sign |-> 1, exp |-> ExpBias + 63, fracHi |-> 0, fracLo |-> 0]

Pow63 == [sign |-> 0, exp |-> ExpBias + 63, fracHi |-> 0, fracLo |-> 0]

Pow64 == [sign |-> 0, exp |-> ExpBias + 64, fracHi |-> 0, fracLo |-> 0]

\* the integers of class c include every integer of [lo, hi]
Covers(c, lo, hi) ==
  CASE c = "int8"   -> LessEq(Float(-MaxInt8 - 1), lo) /\ LessEq(hi, Float(MaxInt8))
    [] c = "int16"  -> LessEq(Float(-MaxInt16 - 1), lo) /\ LessEq(hi, Float(MaxInt16))
    [] c = "int32"  -> LessEq(MinInt32, lo) /\ LessEq(hi, Float(MaxInt32))
    [] c = "int64"  -> LessEq(MinInt64, lo) /\ Less(hi, Pow63)
    [] c = "uint8"  -> LessEq(Float(0), lo) /\ LessEq(hi, Float(MaxUint8))
    [] c = "uint16" -> LessEq(Float(0), lo) /\ LessEq(hi, Float(MaxUint16))
    [] c = "uint32" -> LessEq(Float(0), lo) /\ LessEq(hi, MaxUint32)
    [] c = "uint64" -> LessEq(Float(0), lo) /\ Less(hi, Pow64)

\* the first class of cs that covers [lo, hi], the last one if none does
RECURSIVE Smallest(_, _, _)
Smallest(cs, lo, hi) ==
  IF Len(cs) = 1 \/ Covers(Head(cs), lo, hi) THEN Head(cs)
  ELSE Smallest(Tail(cs), lo, hi)

\* the width class as the specification derives it from min, max and the flags
SpecWidthClass(f) ==
  IF f.Integral
  THEN IF Less(f.Min, Float(0))
       THEN Smallest(<<"int8", "int16", "int32", "int64">>, f.Min, f.Max)
       ELSE Smallest(<<"uint8", "uint16", "uint32", "uint64">>, Float(0), f.Max)
  ELSE IF f.Float32 THEN "float32" ELSE "float64"

\* C4: the width class NumberField.String reports is the smallest signed class
\* covering [min, max] when min < 0, the smallest unsigned class covering
\* [0, max] when min >= 0, float32/float64 by the float32 flag when not
\* integral; so an integral path's class holds every value added to it.
C4_WidthClassCoversRange ==
  \A p \in DOMAIN keyValueSets :
    LET f == keyValueSets[p]
    IN f.type = NumberType =>
         /\ WidthClass(f) = SpecWidthClass(f)
         /\ f.Integral =>
              \A v \in DOMAIN hist[p] : Covers(WidthClass(f), v.n, v.n)

\* C5: after every Add to a NumberField, Min <= v <= Max for every value v
\* added so far, and Min and Max are themselves values that were added.
C5_MinMaxBoundAdded ==
  \A p \in DOMAIN keyValueSets :
    LET f == keyValueSets[p]
    IN f.type = NumberType =>
         /\ \A v \in DOMAIN hist[p] : LessEq(f.Min, v.n) /\ LessEq(v.n, f.Max)
         /\ JNum(f.Min) \in DOMAIN hist[p]
         /\ JNum(f.Max) \in DOMAIN hist[p]

\* three distinct values were added and one lies strictly between Min and Max
C5_Witness ==
  \E p \in DOMAIN keyValueSets :
    /\ keyValueSets[p].type = NumberType
    /\ \E v \in DOMAIN hist[p] :
         Less(keyValueSets[p].Min, v.n) /\ Less(v.n, keyValueSets[p].Max)

\* the bit width of a width class
Bits(c) ==
  CASE c \in {"int8", "uint8"}              -> 8
    [] c \in {"int16", "uint16"}            -> 16
    [] c \in {"int32", "uint32", "float32"} -> 32
    [] c \in {"int64", "uint64", "float64"} -> 64

\* the step adds the one value v at path p
AddsOnly(p, v) ==
  /\ HistTotal(hist', p) = HistTotal(hist, p) + 1
  /\ HistCount(hist', p, v) = HistCount(hist, p, v) + 1

\* adding 300 to a path that holds integers of [0, 100] turns uint8 into uint16
UpgradeExample ==
  \A p \in DOMAIN keyValueSets :
    LET f == keyValueSets[p]
    IN (/\ f.type = NumberType
        /\ f.Integral
        /\ LessEq(Float(0), f.Min)
        /\ LessEq(f.Max, Float(100))
        /\ AddsOnly(p, JNum(Float(300)))) =>
         WidthClass(f) = "uint8" /\ WidthClass(keyValueSets'[p]) = "uint16"

\* C6 (as claimed): the width class reported after an Add never has a smaller
\* capacity than the class reported before it, and adding 300 to a path of
\* values in [0, 100] changes uint8 to uint16.
C6_WidthNeverShrinks ==
  [][/\ \A p \in DOMAIN keyValueSets :
          keyValueSets[p].type = NumberType =>
            Bits(WidthClass(keyValueSets'[p])) >= Bits(WidthClass(keyValueSets[p]))
     /\ UpgradeExample]_vars

\* C6 (amended): the bit width of the reported class never decreases across
\* Adds that leave the integral flag as it was (uint8 -> uint16 on adding 300
\* to values in [0, 100]; float32 -> float64); it can decrease only where the
\* flag turns false (a 64-bit integer class becomes float32).
C6_WidthNeverShrinksWhileIntegralKept ==
  [][/\ \A p \in DOMAIN keyValueSets :
          (/\ keyValueSets[p].type = NumberType
           /\ keyValueSets'[p].Integral = keyValueSets[p].Integral) =>
            Bits(WidthClass(keyValueSets'[p])) >= Bits(WidthClass(keyValueSets[p]))
     /\ UpgradeExample]_vars

\* 100 and 300 were added at a path, which reports uint16
C6_Witness ==
  \E p \in DOMAIN keyValueSets :
    /\ keyValueSets[p].type = NumberType
    /\ DOMAIN hist[p] = {JNum(Float(100)), JNum(Float(300))}
    /\ WidthClass(keyValueSets[p]) = "uint16"

RECURSIVE AddTimes(_, _, _)
AddTimes(f, v, n) ==
  IF n = 0 THEN f
  ELSE LET g == FieldAdd(f, v).f
       IN IF g = Nil THEN g ELSE AddTimes(g, v, n - 1)

\* the values of S are added to f, each as often as bag holds it, in the order
\* in which CHOOSE picks them: an order fixed by the set alone
RECURSIVE CanonFrom(_, _, _)
CanonFrom(f, S, bag) ==
  IF S = {} THEN f
  ELSE LET v == CHOOSE x \in S : TRUE
           g == AddTimes(f, v, bag[v])
       IN IF g = Nil THEN g ELSE CanonFrom(g, S \ {v}, bag)

\* the accumulator that the values of bag give when added in that fixed order
Canon(bag) == CanonFrom(NullField, DOMAIN bag, bag)

\* C7: the width class of a path depends only on the multiset of numbers added
\* to it: it is the class the same multiset gives when added in one fixed order.
C7_WidthClassOrderInvariant ==
  \A p \in DOMAIN keyValueSets :
    keyValueSets[p].type = NumberType =>
      WidthClass(keyValueSets[p]) = WidthClass(Canon(hist[p]))

\* a negative integer, a large integer and a fraction were added at one path
C7_Witness ==
  \E p \in DOMAIN keyValueSets :
    /\ keyValueSets[p].type = NumberType
    /\ {JNum(Float(-200)), JNum(Pow33), JNum(Half)} \subseteq DOMAIN hist[p]

\* min, max and the flags of a NumberField, the counts of a BoolField
Summary(f) ==
  CASE f.type = NumberType -> <<f.Min, f.Max, f.Integral, f.Float32>>
    [] f.type = BoolType   -> <<f.True, f.False>>
    [] OTHER               -> <<>>

\* C8 (as claimed): the registry of a run without error is, at every path, the
\* accumulator its multiset of values gives in any order: same min, max,
\* flags and per-value counts.
C8_RegistryOrderInvariant ==
  pc # "failed" =>
    \A p \in DOMAIN keyValueSets : keyValueSets[p] = Canon(hist[p])

\* C8 (amended): min, max, the two flags and the boolean counts do not depend
\* on the order; the per-value counts do not depend on it at the paths that
\* saw at most MaxEnum distinct values.
C8_SummaryOrderInvariant ==
  pc # "failed" =>
    \A p \in DOMAIN keyValueSets :
      /\ keyValueSets[p].type = Canon(hist[p]).type
      /\ Summary(keyValueSets[p]) = Summary(Canon(hist[p]))
      /\ Cardinality(DOMAIN hist[p]) <= MaxEnum =>
           keyValueSets[p] = Canon(hist[p])

\* a run that read MaxDocs entries with several values at two paths
C8_Witness ==
  /\ pc = "done"
  /\ \E p, q \in DOMAIN keyValueSets :
       /\ keyValueSets[p].type = NumberType
       /\ keyValueSets[q].type = StringType
       /\ Cardinality(DOMAIN hist[p]) >= 3
       /\ Cardinality(DOMAIN hist[q]) >= 2

\* C9: a Seen table never holds more than MaxEnum + 1 keys, and once it holds
\* more than MaxEnum no Add admits a new key.
C9_TableAtMostMaxEnumPlusOne ==
  [][\A p \in DOMAIN keyValueSets' :
       HasSeen(keyValueSets'[p]) =>
         /\ Size(keyValueSets'[p]) <= MaxEnum + 1
         /\ (p \in DOMAIN keyValueSets /\ Size(keyValueSets[p]) > MaxEnum) =>
              DOMAIN keyValueSets'[p].Seen = DOMAIN keyValueSets[p].Seen]_vars

\* a full table was offered a value it does not hold
C9_Witness ==
  \E p \in DOMAIN keyValueSets :
    /\ HasSeen(keyValueSets[p])
    /\ Size(keyValueSets[p]) = MaxEnum + 1
    /\ Cardinality(DOMAIN hist[p]) > MaxEnum + 1

\* C10: every Add after the first updates a NumberField monotonically: the
\* integral and float32 flags only go from true to false, Min never increases
\* and Max never decreases.
C10_NumberFieldMonotone ==
  [][\A p \in DOMAIN keyValueSets :
       LET f == keyValueSets[p]
           g == keyValueSets'[p]
       IN f.type = NumberType =>
            /\ g.Integral => f.Integral
            /\ g.Float32 => f.Float32
            /\ LessEq(g.Min, f.Min)
            /\ LessEq(f.Max, g.Max)]_vars

\* both flags fell, Min and Max moved away from an integer added at the path
C10_Witness ==
  \E p \in DOMAIN keyValueSets :
    LET f == keyValueSets[p]
    IN /\ f.type = NumberType
       /\ ~f.Integral
       /\ ~f.Float32
       /\ JNum(Float(100)) \in DOMAIN hist[p]
       /\ Less(f.Min, Float(100))
       /\ Less(Float(100), f.Max)

\* C11: a BoolField's True is the number of true leaves added at its path and
\* False the number of false ones, so True + False is the number of leaves
\* added; String renders "true:<True>;false:<False>", in that order.
C11_BoolCountsAndRendering ==
  \A p \in DOMAIN keyValueSets :
    LET f == keyValueSets[p]
        t == HistCount(hist, p, JBool(TRUE))
        u == HistCount(hist, p, JBool(FALSE))
    IN f.type = BoolType =>
         /\ f.True = t
         /\ f.False = u
         /\ f.True + f.False = HistTotal(hist, p)
         /\ FieldString(f, <<>>) = "true:" \o ToString(t) \o ";false:" \o ToString(u)

\* true was added twice and false once at one path
C11_Witness ==
  \E p \in DOMAIN keyValueSets :
    /\ keyValueSets[p].type = BoolType
    /\ keyValueSets[p].True = 2
    /\ keyValueSets[p].False = 1
    /\ FieldString(keyValueSets[p], <<>>) = "true:2;false:1"

\* the accumulator that holds the one value v and nothing else
Once(v) ==
  CASE v.kind = "bool"   -> [type |-> BoolType, True |-> IF v.b THEN 1 ELSE 0,
                             False |-> IF v.b THEN 0 ELSE 1]
    [] v.kind = "number" -> [type |-> NumberType, Integral |-> isIntegral(v.n),
                             Float32 |-> isFloat32(v.n), Min |-> v.n, Max |-> v.n,
                             Seen |-> (v.n :> 1)]
    [] v.kind = "string" -> [type |-> StringType, Seen |-> (v.s :> 1)]

\* C17: NullField.Add of a boolean, number or string returns the concrete
\* accumulator of that kind with the value counted once (the first leaf of a
\* path leaves exactly that in the registry); of a null, array or object it
\* returns an error and no accumulator, and a null first leaf fails the run
\* without creating the path.
C17_NullFieldAddDispatches ==
  [][/\ \A p \in DOMAIN keyValueSets' \ DOMAIN keyValueSets :
          HistTotal(hist', p) = 1 =>
            \E v \in DOMAIN hist'[p] :
              /\ keyValueSets'[p] = Once(v)
              /\ keyValueSets'[p] = FieldAdd(NullField, v).f
              /\ Concrete(keyValueSets'[p])
     /\ \A v \in Samples :
          IF v.kind \in {"bool", "number", "string"}
          THEN FieldAdd(NullField, v) = [f |-> Once(v), err |-> NilErr]
          ELSE /\ FieldAdd(NullField, v).f = Nil
               /\ FieldAdd(NullField, v).err = Errorf(v, NullField)
     /\ \A doc \in Docs :
          (/\ ReadEntry(doc)
           /\ \E i \in 1..Len(Leaves("", doc)) :
                /\ Leaves("", doc)[i][2].kind = "null"
                /\ Leaves("", doc)[i][1] \notin DOMAIN keyValueSets) =>
            /\ pc' = "failed"
            /\ err' = Errorf(JNull, NullField)
            /\ keyValueSets' = keyValueSets]_vars

\* a run created paths of the three kinds and then failed on a null first leaf
C17_Witness ==
  /\ pc = "failed"
  /\ err = Errorf(JNull, NullField)
  /\ \E p, q \in DOMAIN keyValueSets :
       /\ keyValueSets[p].type = NumberType /\ HistTotal(hist, p) = 1
       /\ keyValueSets[q].type \in {BoolType, StringType} /\ HistTotal(hist, q) = 1

\* the fields of s between the separators sep
Split(s, sep) ==
  LET at == {i \in 1..Len(s) : SubSeq(s, i, i) = sep}
      pos == [j \in 0..(Cardinality(at) + 1) |->
                IF j = 0 THEN 0
                ELSE IF j = Cardinality(at) + 1 THEN Len(s) + 1
                ELSE CHOOSE i \in at : Cardinality({k \in at : k < i}) = j - 1]
  IN [j \in 1..(Cardinality(at) + 1) |-> SubSeq(s, pos[j - 1] + 1, pos[j] - 1)]

\* %d or %f of a number of f, as NumberField.String chooses
FormatNumber(f, v) == IF f.Integral THEN FormatD(v) ELSE FormatF(v)

\* the text of the pair of key k in the row of f
PairText(f, k) ==
  (IF f.type = NumberType THEN FormatNumber(f, k) ELSE k)
    \o ":" \o ToString(f.Seen[k])

\* C18: the row of a NumberField, cut at the ';', has the width class, the
\* min and the max as its first three fields and, when the table has at most
\* MaxEnum entries, one further field "value:count" per entry; with a larger
\* table it has no further field.
C18_NumberRowFieldsSeparate ==
  \A p \in DOMAIN keyValueSets :
    LET f == keyValueSets[p]
    IN f.type = NumberType =>
         \A order \in RangeOrders(DOMAIN f.Seen) :
           LET fields == Split(FieldString(f, order), ";")
           IN /\ Len(fields) >= 3
              /\ fields[1] = WidthClass(f)
              /\ fields[2] = FormatNumber(f, f.Min)
              /\ fields[3] = FormatNumber(f, f.Max)
              /\ IF Size(f) <= MaxEnum
                 THEN \A k \in DOMAIN f.Seen :
                        \E i \in 4..Len(fields) : fields[i] = PairText(f, k)
                 ELSE Len(fields) = 3

\* what follows the prefix pre in s, cut at the ';' that ends each pair
PairsAfter(s, pre) == Split(SubSeq(s, Len(pre) + 1, Len(s)), ";")

\* the fields fs are one pair per key of f and an empty rest
OnePairPerKey(f, fs) ==
  /\ Len(fs) = Size(f) + 1
  /\ fs[Len(fs)] = ""
  /\ {fs[i] : i \in 1..(Len(fs) - 1)} = {PairText(f, k) : k \in DOMAIN f.Seen}

\* C19: the row of a StringField that was given more than MaxEnum distinct
\* values is exactly "string;"; otherwise it is "enum;<distinctCount>;" and
\* then exactly one "value:count;" per distinct value, the count being the
\* number of times the value was added.  The row of a NumberField lists one
\* pair per value after width class, min and max while its table has at most
\* MaxEnum entries, and no pair beyond.
C19_PairsOnlyWhileEnumerable ==
  \A p \in DOMAIN keyValueSets :
    LET f == keyValueSets[p]
        distinct == Cardinality(DOMAIN hist[p])
    IN HasSeen(f) =>
         /\ (Size(f) > MaxEnum) <=> (distinct > MaxEnum)
         /\ \A order \in RangeOrders(DOMAIN f.Seen) :
              LET s == FieldString(f, order)
                  pre == IF f.type = StringType
                         THEN "enum;" \o ToString(distinct) \o ";"
                         ELSE WidthClass(f) \o ";" \o FormatNumber(f, f.Min)
                                \o ";" \o FormatNumber(f, f.Max)
              IN IF distinct > MaxEnum
                 THEN s = (IF f.type = StringType THEN "string;" ELSE pre)
                 ELSE /\ Len(s) >= Len(pre)
                      /\ SubSeq(s, 1, Len(pre)) = pre
                      /\ OnePairPerKey(f, PairsAfter(s, pre))
                      /\ \A k \in DOMAIN f.Seen :
                           f.Seen[k] = HistCount(hist, p, LeafOf(f, k))

\* one path was given more than MaxEnum strings, another a string twice, a
\* third a number twice
C19_Witness ==
  \E p, q, r \in DOMAIN keyValueSets :
    /\ keyValueSets[p].type = StringType /\ Size(keyValueSets[p]) = MaxEnum + 1
    /\ FieldString(keyValueSets[p], SetToSeq(DOMAIN keyValueSets[p].Seen)) = "string;"
    /\ keyValueSets[q].type = StringType
    /\ DOMAIN keyValueSets[q].Seen = {"x"}
    /\ FieldString(keyValueSets[q], <<"x">>) = "enum;1;x:2;"
    /\ keyValueSets[r].type = NumberType
    /\ \E k \in DOMAIN keyValueSets[r].Seen : keyValueSets[r].Seen[k] = 2

\* the registry after addKVs(root, d, kvs) for every entry d of docs in turn
RECURSIVE Profile(_, _, _)
Profile(root, docs, kvs) ==
  IF docs = <<>> THEN kvs
  ELSE LET r == addKVs(root, Head(docs), kvs)
       IN IF r.err # NilErr THEN r.kvs ELSE Profile(root, Tail(docs), r.kvs)

\* {"a":1,"b":"x"}, {"a":2,"b":"y"}, {"a":300,"b":"x"}
ScenarioDocs ==
  <<Entry2("a", JNum(Float(1)), "b", JStr("x")),
    Entry2("a", JNum(Float(2)), "b", JStr("y")),
    Entry2("a", JNum(Float(300)), "b", JStr("x"))>>

\* the run read the three entries of the scenario and nothing else
ScenarioRead ==
  /\ pc # "failed"
  /\ nread = Len(ScenarioDocs)
  /\ hist = Record(EmptyMap, LeavesEach(<<"", "", "">>, ScenarioDocs))

\* path a holds uint16, min 1, max 300 and path b the enum x:2, y:1
ScenarioResult(kvs, a, b) ==
  /\ DOMAIN kvs = {a, b}
  /\ kvs[a].type = NumberType
  /\ WidthClass(kvs[a]) = "uint16"
  /\ FormatD(kvs[a].Min) = "1"
  /\ FormatD(kvs[a].Max) = "300"
  /\ kvs[b].type = StringType
  /\ \A order \in RangeOrders(DOMAIN kvs[b].Seen) :
       FieldString(kvs[b], order) \in {"enum;2;x:2;y:1;", "enum;2;y:1;x:2;"}

\* C20 (as claimed): the registry of the run over the three entries is the
\* one addKVs builds from the root path "." and holds .a as uint16 with min 1
\* and max 300 and .b as the enum x:2, y:1.
C20_ScenarioAtRootDot ==
  ScenarioRead =>
    /\ keyValueSets = Profile(".", ScenarioDocs, EmptyMap)
    /\ ScenarioResult(Profile(".", ScenarioDocs, EmptyMap), ".a", ".b")

\* C20 (amended): the same with the root path "", the one the run passes to
\* addKVs; the rows written are those of .a and .b, in that order.
C20_ScenarioAtEmptyRoot ==
  ScenarioRead =>
    /\ keyValueSets = Profile("", ScenarioDocs, EmptyMap)
    /\ ScenarioResult(keyValueSets, ".a", ".b")
    /\ pc = "done" =>
         /\ Len(out) = 2
         /\ out[1] = [path |-> ".a", field |-> keyValueSets[".a"]]
         /\ out[2] = [path |-> ".b", field |-> keyValueSets[".b"]]

C20_Witness ==
  /\ ScenarioRead
  /\ pc = "done"
  /\ SubSeq(FieldString(keyValueSets[".a"], <<Float(1), Float(2), Float(300)>>), 1, 12)
       = "uint16;1;300"

\* the number of distinct values counted at path p
RawSize(kvs, p) == IF p \in DOMAIN kvs THEN Cardinality(DOMAIN kvs[p]) ELSE 0

\* values of every kind, containers with a leaf among them
RawSamples ==
  Samples \cup {JStr("new"), JArr(<<JStr("new")>>), Entry1("k", JStr("new"))}

\* C12: once the count map of a path holds more than PathCap values, addKVs
\* at that path returns no error and leaves the whole registry, so every count
\* of the path, as it was, whatever the value; a step of the run changes
\* nothing at such a path, and no count map ever holds more than PathCap + 1
\* keys.
C12_CappedPathIsFrozen ==
  [][/\ \A p \in DOMAIN keyValueSets :
          RawSize(keyValueSets, p) > PathCap =>
            /\ keyValueSets'[p] = keyValueSets[p]
            /\ \A v \in RawSamples :
                 addKVsRaw(p, v, keyValueSets) = [kvs |-> keyValueSets, err |-> NilErr]
     /\ \A p \in DOMAIN keyValueSets' : RawSize(keyValueSets', p) <= PathCap + 1
     /\ \A doc \in RawDocs : RawReadEntry(doc) => err' = NilErr]_vars

\* a path holds PathCap + 1 values and was offered a value it does not hold
\* and again one that it holds
C12_Witness ==
  \E p \in DOMAIN keyValueSets :
    /\ RawSize(keyValueSets, p) = PathCap + 1
    /\ \E v \in DOMAIN hist[p] : RawKey(v) \notin DOMAIN keyValueSets[p]
    /\ \E v \in DOMAIN hist[p] :
         /\ RawKey(v) \in DOMAIN keyValueSets[p]
         /\ hist[p][v] > keyValueSets[p][RawKey(v)]

\* out[i] is a row "path;key;count", not a line of the list of paths
IsRow(r) == "key" \in DOMAIN r

\* C13 (as claimed): nothing that a finished run has written names a path
\* whose count map holds more than PathCap values.
C13_CappedPathNotInOutput ==
  pc = "done" =>
    \A p \in DOMAIN keyValueSets :
      RawSize(keyValueSets, p) > PathCap =>
        \A i \in 1..Len(out) : out[i].path # p

\* C13 (amended): a finished run has written no row for a path whose count
\* map holds more than PathCap values, and one row per value, with its count,
\* for every other path; the list of paths printed before the rows names
\* every path of the registry, the dropped ones too.
C13_CappedPathHasNoRow ==
  pc = "done" =>
    \A p \in DOMAIN keyValueSets :
      /\ \E i \in 1..Len(out) : out[i] = [path |-> p]
      /\ IF RawSize(keyValueSets, p) > PathCap
         THEN \A i \in 1..Len(out) : IsRow(out[i]) => out[i].path # p
         ELSE /\ \A k \in DOMAIN keyValueSets[p] :
                   Cardinality({i \in 1..Len(out) :
                      out[i] = PathKeyCount(p, k, keyValueSets[p][k])}) = 1
              /\ Cardinality({i \in 1..Len(out) : IsRow(out[i]) /\ out[i].path = p})
                   = RawSize(keyValueSets, p)

\* a finished run with a dropped path and a path that has rows
C13_Witness ==
  /\ pc = "done"
  /\ \E p, q \in DOMAIN keyValueSets :
       /\ RawSize(keyValueSets, p) > PathCap
       /\ RawSize(keyValueSets, q) \in 1..PathCap
       /\ \E i \in 1..Len(out) : IsRow(out[i]) /\ out[i].path = q

\* the paths at which doc has a null leaf
NullPaths(doc) ==
  {RawLeaves(".", doc)[i][1] :
     i \in {j \in 1..Len(RawLeaves(".", doc)) : RawLeaves(".", doc)[j][2].kind = "null"}}

\* C16 (as claimed): reading an entry returns no error for a null leaf and
\* leaves the registry at the path of the null as it was: no entry is created
\* for it and none is changed.
C16_NullLeavesRegistryAsItWas ==
  [][\A doc \in RawDocs :
       RawReadEntry(doc) =>
         \A p \in NullPaths(doc) :
           /\ err' = NilErr
           /\ addKVsRaw(p, JNull, keyValueSets) = [kvs |-> keyValueSets, err |-> NilErr]
           /\ (p \in DOMAIN keyValueSets') <=> (p \in DOMAIN keyValueSets)
           /\ p \in DOMAIN keyValueSets => keyValueSets'[p] = keyValueSets[p]]_vars

\* C16 (amended): a null leaf returns no error and changes no count: the
\* count map of its path is left as it was, and a path that had none gets an
\* empty one, which gives the path a line in the list of paths and no row.
C16_NullCountsNothing ==
  [][/\ \A doc \in RawDocs :
          RawReadEntry(doc) =>
            \A p \in NullPaths(doc) :
              /\ err' = NilErr
              /\ p \in DOMAIN keyValueSets'
              /\ keyValueSets'[p] = IF p \in DOMAIN keyValueSets
                                     THEN keyValueSets[p] ELSE EmptyMap
     /\ pc' = "done" =>
          \A p \in DOMAIN keyValueSets' :
            keyValueSets'[p] = EmptyMap =>
              /\ \E i \in 1..Len(out') : out'[i] = [path |-> p]
              /\ \A i \in 1..Len(out') : IsRow(out'[i]) => out'[i].path # p]_vars

\* a finished run that met a path only with a null, and a null at a path that
\* holds a count
C16_Witness ==
  /\ pc = "done"
  /\ ".b." \in DOMAIN keyValueSets
  /\ keyValueSets[".b."] = EmptyMap
  /\ JNull \in DOMAIN hist[".b."]
  /\ ".a." \in DOMAIN keyValueSets
  /\ JNull \in DOMAIN hist[".a."]
  /\ keyValueSets[".a."] # EmptyMap

IsLine(r) == ~IsRow(r)

\* C14: a finished run of the accumulator program has written its rows in
\* strictly ascending byte order of the paths; a finished run of the raw-value
\* program has printed the paths in that order and written the rows in
\* ascending order of the paths, the rows of one path in descending order of
\* the counts.
C14_RowsSorted ==
  pc = "done" =>
    IF mode = "accumulator"
    THEN /\ {out[i].path : i \in 1..Len(out)} = DOMAIN keyValueSets
         /\ \A i, j \in 1..Len(out) : i < j => StringLess(out[i].path, out[j].path)
    ELSE LET lines == SelectSeq(out, IsLine)
             rows == SelectSeq(out, IsRow)
         IN /\ out = lines \o rows
            /\ {lines[i].path : i \in 1..Len(lines)} = DOMAIN keyValueSets
            /\ \A i, j \in 1..Len(lines) :
                 i < j => StringLess(lines[i].path, lines[j].path)
            /\ \A i, j \in 1..Len(rows) :
                 i < j =>
                   /\ ~StringLess(rows[j].path, rows[i].path)
                   /\ rows[i].path = rows[j].path => rows[i].count >= rows[j].count

\* the raw-value program wrote rows of two paths, of one a count of 2 before a
\* count of 1, the paths in byte order
C14_Witness ==
  /\ pc = "done"
  /\ mode = "raw"
  /\ SelectSeq(out, IsLine) = <<[path |-> "."], [path |-> ".a."], [path |-> ".b."]>>
  /\ SelectSeq(out, IsRow) = <<PathKeyCount(".a.", "x", 2),
                                PathKeyCount(".a.", "1.000000", 1),
                                PathKeyCount(".b.", "y", 1)>>

\* a step into a value: the member of key k of an object, the element of
\* index i of an array
AtKey(k) == [key |-> k]

AtIndex(i) == [index |-> i]

\* the nodes of a value, each with the steps that lead to it
RECURSIVE Nodes(_)
Nodes(obj) ==
  {<< <<>>, obj >>} \cup
    (CASE obj.kind = "array" ->
            UNION {{<< <<AtIndex(i)>> \o n[1], n[2] >> : n \in Nodes(obj.elems[i])} :
                     i \in 1..Len(obj.elems)}
       [] obj.kind = "object" ->
            UNION {{<< <<AtKey(obj.members[i][1])>> \o n[1], n[2] >> :
                      n \in Nodes(obj.members[i][2])} : i \in 1..Len(obj.members)}
       [] OTHER -> {})

IsLeaf(n) == n[2].kind \notin {"array", "object"}

\* the path of a position: the root, then "[]" for every step into an array
\* and the key of every step into an object, with the "." on the side that
\* the program m puts it
RECURSIVE PathOf(_, _)
PathOf(m, pos) ==
  IF pos = <<>> THEN (IF m = "accumulator" THEN "" ELSE ".")
  ELSE LET last == pos[Len(pos)]
           up == PathOf(m, SubSeq(pos, 1, Len(pos) - 1))
       IN IF "index" \in DOMAIN last THEN up \o "[]"
          ELSE IF m = "accumulator" THEN up \o "." \o last.key
          ELSE up \o last.key \o "."

\* a value with every leaf replaced by null
RECURSIVE Shape(_)
Shape(obj) ==
  CASE obj.kind = "array" -> JArr([i \in 1..Len(obj.elems) |-> Shape(obj.elems[i])])
    [] obj.kind = "object" ->
         JObj([i \in 1..Len(obj.members) |->
                 <<obj.members[i][1], Shape(obj.members[i][2])>>])
    [] OTHER -> JNull

\* entries of one shape give a fresh registry the same paths
PathsIgnoreValues ==
  /\ \A d, e \in Docs :
       (/\ Shape(d) = Shape(e)
        /\ addKVs("", d, EmptyMap).err = NilErr
        /\ addKVs("", e, EmptyMap).err = NilErr) =>
         DOMAIN addKVs("", d, EmptyMap).kvs = DOMAIN addKVs("", e, EmptyMap).kvs
  /\ \A d, e \in RawDocs :
       Shape(d) = Shape(e) =>
         DOMAIN addKVsRaw(".", d, EmptyMap).kvs = DOMAIN addKVsRaw(".", e, EmptyMap).kvs

\* no array or object on the way to position pos is at a path left out by the cap
Reached(kvs, pos) ==
  \A n \in 0..(Len(pos) - 1) : RawSize(kvs, PathOf("raw", SubSeq(pos, 1, n))) <= PathCap

\* {"tags":["x","y"]}
TagsXY == Entry1("tags", JArr(<<JStr("x"), JStr("y")>>))

\* C15: the path at which a leaf is counted is PathOf of its position: the
\* paths a step adds to the registry are those of the positions of the entry
\* read, the accumulator (the count map) at the path of a leaf is of the kind
\* of the leaf (holds its key); entries of one shape give the same paths; and
\* {"tags":["x","y"]} read twice gives the one path .tags[] with x:2 and y:2.
C15_PathIsFunctionOfPosition ==
  [][/\ PathsIgnoreValues
     /\ \A doc \in Docs :
          (ReadEntry(doc) /\ err' = NilErr) =>
            /\ DOMAIN keyValueSets' =
                 DOMAIN keyValueSets
                   \cup {PathOf(mode, n[1]) : n \in {m \in Nodes(doc) : IsLeaf(m)}}
            /\ \A n \in Nodes(doc) :
                 IsLeaf(n) => Accepts(keyValueSets'[PathOf(mode, n[1])]) = n[2].kind
     /\ \A doc \in RawDocs :
          RawReadEntry(doc) =>
            /\ DOMAIN keyValueSets' \subseteq
                 DOMAIN keyValueSets \cup {PathOf(mode, n[1]) : n \in Nodes(doc)}
            /\ \A n \in Nodes(doc) :
                 Reached(keyValueSets', n[1]) =>
                   LET p == PathOf(mode, n[1])
                   IN /\ p \in DOMAIN keyValueSets'
                      /\ (IsLeaf(n) /\ n[2].kind # "null"
                            /\ RawSize(keyValueSets', p) <= PathCap) =>
                           RawKey(n[2]) \in DOMAIN keyValueSets'[p]
     /\ (/\ mode' = "accumulator" /\ nread' = 2 /\ pc' = "reading"
         /\ hist' = Record(EmptyMap, Leaves("", TagsXY) \o Leaves("", TagsXY))) =>
          keyValueSets' =
            (".tags[]" :> [type |-> StringType, Seen |-> ("x" :> 2) @@ ("y" :> 2)])
     /\ (/\ mode' = "raw" /\ nread' = 2 /\ pc' = "reading"
         /\ hist' = Record(EmptyMap, RawLeaves(".", TagsXY) \o RawLeaves(".", TagsXY))) =>
          keyValueSets' =
            ("." :> EmptyMap) @@ (".tags." :> EmptyMap)
              @@ (".tags.[]" :> (("x" :> 2) @@ ("y" :> 2)))]_vars

\* {"tags":["x","y"]} was read twice by the accumulator program
C15_Witness ==
  /\ mode = "accumulator"
  /\ nread = 2
  /\ hist = Record(EmptyMap, Leaves("", TagsXY) \o Leaves("", TagsXY))
  /\ DOMAIN keyValueSets = {".tags[]"}
  /\ keyValueSets[".tags[]"].Seen = ("x" :> 2) @@ ("y" :> 2)

\* the leaf of doc whose Add fails when doc is read into kvs
Offending(doc, kvs) ==
  LET ls == Leaves("", doc)
  IN ls[Len(Added(ls, kvs)) + 1]

\* C21: an error of the accumulation phase carries the path of the leaf whose
\* Add failed and the type of the value of that leaf.
C21_ErrorCarriesPathAndType ==
  [][\A doc \in Docs :
       (ReadEntry(doc) /\ err' # NilErr) =>
         LET leaf == Offending(doc, keyValueSets)
         IN /\ TypeName(leaf[2]) \in Range(err'.args)
            /\ leaf[1] \in Range(err'.args)]_vars

\* the w bits of n, the most significant first
RECURSIVE BitsOf(_, _)
BitsOf(n, w) == IF w = 0 THEN <<>> ELSE BitsOf(n \div 2, w - 1) \o <<n % 2>>

\* the 64 bits of the IEEE-754 pattern of f: sign, 11 of exponent, 52 of fraction
Float64bits(f) ==
  <<f.sign>> \o BitsOf(f.exp, 11) \o BitsOf(f.fracHi, 23) \o BitsOf(f.fracLo, 29)

LowBitsZero(f, n) ==
  LET bits == Float64bits(f)
  IN \A i \in (Len(bits) - n + 1)..Len(bits) : bits[i] = 0

\* C22: isFloat32(v) is true exactly when the low 29 bits of the bit pattern
\* of v are all zero, whatever the exponent: true for 0.5, false for 0.1 and
\* false for 2^24+1.
C22_IsFloat32IsLowBitsZero ==
  (arg.fn = "isFloat32" /\ result # Nil) =>
    /\ Len(Float64bits(arg.x.float64)) = 64
    /\ result.val <=> LowBitsZero(arg.x.float64, 29)
    /\ arg.x.float64 = Half => result.val
    /\ arg.x.float64 = Tenth => ~result.val
    /\ arg.x.float64 = Pow24Plus1 => ~result.val

\* isFloat32 was called with 2^24+1 and returned false
C22_Witness ==
  /\ arg = Call("isFloat32", AsFloat64(Pow24Plus1))
  /\ result = Return(FALSE)

\* C23: the cap of one path does not keep values from being counted at
\* another: at every path that holds no more than 100 distinct values, the
\* count of every value is the number of its occurrences at that path in the
\* entries read, whatever their order.
C23_CapIsPerPath ==
  (mode = "raw" /\ pc = "reading") =>
    \A p \in DOMAIN hist :
      RawSize(keyValueSets, p) <= PathCap =>
        \A v \in DOMAIN hist[p] :
          v.kind # "null" =>
            /\ p \in DOMAIN keyValueSets
            /\ RawKey(v) \in DOMAIN keyValueSets[p]
            /\ keyValueSets[p][RawKey(v)] = hist[p][v]

\* the number of places of q that hold x
Count(q, x) == Cardinality({i \in 1..Len(q) : q[i] = x})

\* the UUID of an entry of SortEntries that has one, as the 32 hexadecimal
\* digits of its 128-bit value
UuidValue(v) ==
  LET f == SubSeq(Member(v, keyField).s, 1, 36)
  IN [i \in 1..32 |-> xvalue(At(f, IF i <= 8 THEN i - 1
                                   ELSE IF i <= 12 THEN i
                                   ELSE IF i <= 16 THEN i + 1
                                   ELSE IF i <= 20 THEN i + 2
                                   ELSE i + 3))]

\* a < b on numbers given by their digits, as many in a as in b
RECURSIVE DigitsLess(_, _)
DigitsLess(a, b) ==
  IF a = <<>> THEN FALSE
  ELSE IF Head(a) # Head(b) THEN Head(a) < Head(b)
  ELSE DigitsLess(Tail(a), Tail(b))

\* C24: the sequence Sort returns holds every entry read as often as it was
\* read, in ascending order of the 128-bit values of the UUIDs, also when two
\* entries carry one UUID.
C24_SortEmitsEveryEntryOnce ==
  (mode = "sort" /\ pc = "done") =>
    /\ Len(out) = Len(entries)
    /\ \A v \in Range(entries) : Count(out, v) = Count(entries, v)
    /\ \A i, j \in 1..Len(out) :
         i < j => ~DigitsLess(UuidValue(out[j]), UuidValue(out[i]))

HexChars == {SubSeq(HexLower, i, i) : i \in 1..Len(HexLower)}
              \cup {SubSeq(HexUpper, i, i) : i \in 1..Len(HexUpper)}

\* the first 36 characters of s are a UUID: 8-4-4-4-12 hexadecimal digits
StartsWithUuid(s) ==
  /\ Len(s) >= 36
  /\ \A i \in 0..35 :
       IF i \in {8, 13, 18, 23} THEN At(s, i) = "-" ELSE At(s, i) \in HexChars

\* an entry Sort cannot key
BadEntry(v) ==
  \/ ~HasMember(v, keyField)
  \/ Member(v, keyField).kind # "string"
  \/ ~StartsWithUuid(Member(v, keyField).s)

\* C25: once the input has yielded an entry without a "file" field, with a
\* "file" that is no string or with a "file" that does not start with a UUID
\* (strings of fewer than 36 characters among them), Sort has returned an
\* error and no sequence, and so it has when the input yielded an error; Sort
\* never ends in a panic.
C25_BadInputIsAnError ==
  mode = "sort" =>
    /\ pc # "panicked"
    /\ (entries # <<>> /\ BadEntry(entries[Len(entries)])) =>
         (pc = "failed" /\ err # NilErr /\ out = Nil)
    /\ pc = "failed" => (err # NilErr /\ out = Nil)
    /\ pc = "done" => \A i \in 1..Len(entries) : ~BadEntry(entries[i])

\* the comparison of the License fields under --validate
SameLicense(left, right) == ToLicenseType(left).val = ToLicenseType(right).val

\* C28: ToLicenseString succeeds on every value of the enum and ToLicenseType
\* takes its string back to the value; a string ToLicenseType accepts and the
\* string ToLicenseString gives for its value are of one license type, so the
\* comparison under --validate finds them equal.
C28_LicenseRoundTrips ==
  /\ (arg.fn = "ToLicenseString" /\ result # Nil /\ arg.x.LicenseType \in LicenseTypes) =>
       /\ result.err = NilErr
       /\ ToLicenseType(result.val) = Ok(arg.x.LicenseType)
  /\ (arg.fn = "ToLicenseType" /\ result # Nil /\ result.err = NilErr) =>
       LET back == ToLicenseString(result.val)
       IN /\ back.err = NilErr
          /\ ToLicenseType(back.val) = result
          /\ SameLicense(arg.x.string, back.val)

\* ToLicenseType was called with "CC BY-NC" and returned LICENSE_CC_BY_NC,
\* whose string is the other spelling
C28_Witness ==
  /\ arg = Call("ToLicenseType", AsString("CC BY-NC"))
  /\ result = Ok(LicenseType("LICENSE_CC_BY_NC"))
  /\ ToLicenseString(result.val) = Ok("cc-by-nc")

\* C26: what paper-id-convert has handed to its writer is, record after
\* record, the uvarint of the length of the encoding and the encoding; and
\* license-count, reading a length and that many bytes in turn, comes to the
\* end of the file having read the records written.
C26_PblRoundTrips ==
  /\ mode = "paper-id-convert" => stream \o writer = Frame(written)
  /\ (mode = "license-count" /\ written # <<>>) =>
       /\ pc \notin {"failed", "panicked"}
       /\ pc = "done" => recovered = written

\* the number of records read whose license is t
LicenseCount(t) ==
  Cardinality({i \in 1..Len(recovered) : Unmarshal(recovered[i]).msg.license = t})

IsCountLine(r) == "count" \in DOMAIN r

\* C27: license-count has printed one line for every license type, with the
\* number of the records read that have the license of the line, in
\* descending order of the counts.
C27_OneLinePerLicenseWithItsCount ==
  (mode = "license-count" /\ pc = "done") =>
    LET lines == SelectSeq(out, IsCountLine)
    IN /\ Len(lines) = Cardinality(LicenseTypes)
       /\ \A t \in LicenseTypes :
            \E i \in 1..Len(lines) :
              /\ lines[i].licenseStr = LicenseStrings[t + 1]
              /\ lines[i].count = LicenseCount(t)
       /\ \A i, j \in 1..Len(lines) : i < j => lines[i].count >= lines[j].count

\* the messages received and not yet written, then those in the channel
InFlight ==
  (IF goroutine.writer \in {"count", "write"} THEN <<mention>> ELSE <<>>) \o mentions.buf

\* every message sent is written or on its way, in the order sent, and none
\* is written twice; runE returns with all of them written
WrittenOnceInSendOrder ==
  /\ sent = outFile \o InFlight
  /\ \A i, j \in 1..Len(outFile) : outFile[i] = outFile[j] => i = j
  /\ goroutine.main = "returned" => outFile = sent

OnlyWriterWritesCounts == \A a \in accesses : a.op = "write" => a.by = "writer"

MainReadsCountsAfterDrain ==
  \A a \in accesses :
    a.by = "main" => a.closed /\ a.pending = 0 /\ a.writer = "done"

ConvSafe ==
  mode = "mentions-convert" =>
    WrittenOnceInSendOrder /\ OnlyWriterWritesCounts /\ MainReadsCountsAfterDrain

WalkFinished == mode = "mentions-convert" /\ goroutine.walker = "done"

Returned == goroutine.main = "returned"

RECURSIVE SumOverFiles(_, _)
SumOverFiles(ms, name) ==
  IF ms = <<>> THEN 0
  ELSE Get(ms[Len(ms)], name) + SumOverFiles(SubSeq(ms, 1, Len(ms) - 1), name)

\* runE is past close(maps) and mergeWg.Wait()
AfterMergeWait ==
  mode = "mentions-count" /\ goroutine.main \in {"read", "printed", "panicked"}

\* C30: in the streaming mentions-count, under every interleaving of runE
\* and the merge goroutine, after close(maps) and mergeWg.Wait()
\* softwareMap[name] is, for every name, the sum over the files processed of
\* the count of the name in the file; the merge goroutine alone writes
\* softwareMap, and runE reads it only when the merge goroutine is done and
\* can write no more.
C30_SoftwareMapIsSumOfFiles ==
  mode = "mentions-count" =>
    /\ AfterMergeWait =>
         \A name \in DOMAIN softwareMap \cup {"a", "b", "code"} :
           Get(softwareMap, name) = SumOverFiles(processed, name)
    /\ \A a \in accesses : a.op = "write" => a.by = "merge"
    /\ \A a \in accesses :
         a.by = "main" => a.merge = "done" /\ a.closed /\ a.pending = 0

\* the long directory was processed: the merge goroutine has written while
\* the channel was full, runE has waited and read the sums of twelve files
C30_Witness ==
  /\ AfterMergeWait
  /\ Len(processed) = MapsCap + 2
  /\ softwareMap = ("a" :> 12) @@ ("b" :> 8)
  /\ \E a \in accesses : a.by = "merge" /\ a.pending = MapsCap
  /\ \E a \in accesses : a.by = "main"

====
